---------------------------- MODULE Spec2Model ----------------------------
(***************************************************************************)
(* Browser interaction layer of the DreamUp QA pipeline.                   *)
(*                                                                         *)
(*   Spec        InteractionEngine.executeActions driving an arbitrary     *)
(*               BrowserSession (any call may succeed, reject, be slow or  *)
(*               never settle) under the total and per-action timeouts.    *)
(*                                                                         *)
(*   SessionSpec the two BrowserSession classes (BrowserbaseSession over a   *)
(*               remote CDP connection, LocalPlaywrightSession over a      *)
(*               local browser) under any sequence of calls and any        *)
(*               outcome of the backend calls they make.                   *)
(*                                                                         *)
(*   KeypressSpec, IframeSpec  the keypress and switchToIframe calls on a  *)
(*               BrowserSession.                                           *)
(*   PageSpec    evaluate, getConsoleLogs, clickAt, the page's console.    *)
(*   DetectSpec  InteractionEngine.detectAndInteract.                      *)
(*   EvaluatorSpec  Evaluator.evaluate.                                    *)
(*   DashboardRunSpec  one test run of the dashboard server.               *)
(*   DashboardSpec  the dashboard server over several test runs.           *)
(*   RunSpec     the entry points (dashboard runTestAsync, Lambda handler, *)
(*               runTest) from obtaining a session to closing it.          *)
(*                                                                         *)
(* Time is counted in ticks.  `now` is Date.now(); it advances only while  *)
(* the engine awaits a session call or a timer.                            *)
(***************************************************************************)
EXTENDS Integers, Sequences, FiniteSets, TLC

(***************************************************************************)
(* Bounds of the model.                                                    *)
(***************************************************************************)
MaxActions == 2        \* longest ActionConfig[] handed to executeActions
MaxRepeat == 3         \* largest `repeat` of a keypress action
MaxDelay == 1          \* longest time a session call takes before it settles
TimeoutAction == 2     \* timeouts.action, in ticks
TimeoutTotal == 2      \* timeouts.total, in ticks
MaxSessionOps == 3     \* calls made on one session in SessionSpec
RunMaxActions == 1     \* longest config.actions of a dashboard run in RunSpec
MaxIframes == 2        \* most iframes on a page in IframeSpec
MaxIframeOps == 2      \* calls made on one session in IframeSpec
MaxLogs == 2           \* console messages a page writes in PageSpec
MaxRuns == 2           \* POST /api/test requests in DashboardSpec
MaxShots == 2          \* screenshots handed to Evaluator.evaluate
MaxConsoleErrors == 2  \* console errors handed to Evaluator.evaluate

VARIABLES
    actions,      \* the ActionConfig[] argument of executeActions
    pc,           \* position of the engine
    idx,          \* index in `actions` of the action of the for loop
    rep,          \* the keypress loop counter i
    now,          \* Date.now()
    startTime,    \* executeActions' startTime
    actionStart,  \* executeAction's startTime
    inflight,     \* the session call being awaited
    error,        \* message of the error executeActions rejected with
    started,      \* indices of the actions executeAction was called for, in order
    callLog,      \* session methods invoked, in order, and how each ended
    warnings,     \* errors swallowed by console.warn, in order
    detect,       \* position and history of detectAndInteract
    session,      \* the fields of the BrowserSession object and the state of
                  \* the backend resources behind it
    lastOp,       \* the last call made on the session: what the backend did
                  \* and what the caller got
    closeLog,     \* one entry for each call of close(), in order
    opCount,      \* number of calls made on the session
    consoleLogs,  \* console messages held by the page and by the session
    entry,        \* the entry point that runs: dashboard, lambda or runTest
    env,          \* USE_LOCAL_BROWSER / useLocalBrowser, BROWSERBASE_API_KEY set
    runPc,        \* position of the entry point
    runResult,    \* how the entry point ended
    testRunning,  \* DashboardServer.testRunning
    currentTest,  \* DashboardServer.currentTest is not null
    currentPhase, \* DashboardServer.currentPhase
    requests,     \* what became of each invocation of the entry point so far
    pendingResets, \* reset timers of finished dashboard runs not yet fired
    evaluation,   \* position, evidence and report of Evaluator.evaluate
    calls         \* ensureCDPConnection invocations waiting at an await

engineVars == <<actions, pc, idx, rep, now, startTime, actionStart, inflight,
                error, started, callLog, warnings, detect>>

sessionVars == <<session, lastOp, closeLog, opCount, consoleLogs>>

runVars == <<entry, env, runPc, runResult, testRunning, currentTest, currentPhase,
             requests, pendingResets, evaluation, calls>>

hostVars == <<sessionVars, runVars>>

vars == <<engineVars, sessionVars, runVars>>

(***************************************************************************)
(* String.prototype.includes                                               *)
(***************************************************************************)
includes(s, t) ==
    \E k \in 1..(Len(s) - Len(t) + 1) : SubSeq(s, k, k + Len(t) - 1) = t

(***************************************************************************)
(* ActionConfig: {type, selector?, key?, repeat?}.  An absent selector or  *)
(* key is FALSE, which is what `!` tests for; an absent repeat is Absent.  The duration  *)
(* of a wait action is only handed on to session.wait, whose behaviour is  *)
(* the session's, so it is not part of the record.                         *)
(***************************************************************************)
ActionTypes == {"wait", "click", "keypress", "screenshot", "other"}

\* action.repeat is undefined
Absent == -1

ActionConfig ==
    [type : {"wait"}, selector : {FALSE}, key : {FALSE}, repeat : {Absent}]
    \cup [type : {"click"}, selector : BOOLEAN, key : {FALSE}, repeat : {Absent}]
    \cup [type : {"keypress"}, selector : {FALSE}, key : {TRUE},
          repeat : {Absent} \cup 0..MaxRepeat]
    \cup [type : {"keypress"}, selector : {FALSE}, key : {FALSE}, repeat : {Absent}]
    \cup [type : {"screenshot", "other"}, selector : {FALSE}, key : {FALSE},
          repeat : {Absent}]

ActionLists == UNION {[1..n -> ActionConfig] : n \in 0..MaxActions}

(***************************************************************************)
(* Messages of the errors a BrowserSession call may reject with, and the   *)
(* messages of the engine's own errors.                                    *)
(***************************************************************************)
SessionErrors ==
    {"element not found",
     "Navigation timeout of 30000 ms exceeded"}

MsgTotalTimeout == "Total execution timeout exceeded"
MsgActionTimeoutExceeded == "Action timeout exceeded"
MsgActionTimeout == "Action timeout"
MsgClickSelector == "Click action requires a selector"
MsgKeypressKey == "Keypress action requires a key"
MsgUnknownType == "Unknown action type"

NoCall == [op |-> "none", raced |-> FALSE, settles |-> FALSE]

\* the last call of callLog ends with `result`: "ok", the message it rejected
\* with, or "abandoned" when the timer won the race
settled(result) ==
    [callLog EXCEPT ![Len(callLog)] = [@ EXCEPT !.result = result]]

\* this.session.<op>(...) is called; whether the call ever settles is the
\* session's choice.
invoke(op, raced) ==
    /\ callLog' = Append(callLog, [action |-> idx, op |-> op, result |-> "pending"])
    /\ \E s \in BOOLEAN : inflight' = [op |-> op, raced |-> raced, settles |-> s]
    /\ pc' = "await"

isTimeoutError_rethrowAll(msg) == TRUE

isTimeoutError_never(msg) == FALSE

\* catch (error) of executeAction
isTimeoutError(msg) == includes(msg, "timeout")

executeAction_catch(msg) ==
    IF isTimeoutError(msg)
    THEN /\ pc' = "raised"
         /\ error' = msg
         /\ UNCHANGED <<idx, warnings>>
    ELSE /\ warnings' = Append(warnings, [action |-> idx, message |-> msg])
         /\ idx' = idx + 1
         /\ pc' = "loop"
         /\ UNCHANGED error

\* executeActions is called
executeActions_begin ==
    /\ pc = "idle"
    /\ runPc = "executeActions"
    /\ startTime' = now
    /\ idx' = 1
    /\ pc' = "loop"
    /\ UNCHANGED <<actions, rep, now, actionStart, inflight, error, started,
                   callLog, warnings>>
    /\ UNCHANGED <<detect, hostVars>>

totalTimeoutExceeded_ge == now - startTime >= TimeoutTotal

totalTimeoutExceeded == now - startTime > TimeoutTotal

\* one turn of `for (const action of actions)`, up to the call of executeAction
executeActions_loop ==
    /\ pc = "loop"
    /\ IF idx > Len(actions)
       THEN /\ pc' = "returned"
            /\ UNCHANGED <<error, started, actionStart>>
       ELSE IF totalTimeoutExceeded
       THEN /\ pc' = "raised"
            /\ error' = MsgTotalTimeout
            /\ UNCHANGED <<started, actionStart>>
       ELSE /\ pc' = "switch"
            /\ actionStart' = now
            /\ started' = Append(started, idx)
            /\ UNCHANGED error
    /\ UNCHANGED <<actions, idx, rep, now, startTime, inflight, callLog, warnings>>
    /\ UNCHANGED <<detect, hostVars>>

\* the session method the case of an action type calls
sessionMethod_sameName(type) == type

sessionMethod(type) == IF type = "screenshot" THEN "wait" ELSE type

\* switch (action.type)
executeAction_switch ==
    /\ pc = "switch"
    /\ LET action == actions[idx] IN
       CASE action.type = "wait" ->
              /\ invoke(sessionMethod("wait"), TRUE)
              /\ UNCHANGED <<idx, rep, error, warnings>>
         [] action.type = "click" ->
              IF ~action.selector
              THEN /\ executeAction_catch(MsgClickSelector)
                   /\ UNCHANGED <<rep, inflight, callLog>>
              ELSE /\ invoke(sessionMethod("click"), TRUE)
                   /\ UNCHANGED <<idx, rep, error, warnings>>
         [] action.type = "keypress" ->
              IF ~action.key
              THEN /\ executeAction_catch(MsgKeypressKey)
                   /\ UNCHANGED <<rep, inflight, callLog>>
              ELSE /\ rep' = 0
                   /\ pc' = "keyloop"
                   /\ UNCHANGED <<idx, inflight, callLog, error, warnings>>
         [] action.type = "screenshot" ->
              /\ invoke(sessionMethod("screenshot"), FALSE)
              /\ UNCHANGED <<idx, rep, error, warnings>>
         [] OTHER ->
              /\ executeAction_catch(MsgUnknownType)
              /\ UNCHANGED <<rep, inflight, callLog>>
    /\ UNCHANGED <<actions, now, startTime, actionStart, started>>
    /\ UNCHANGED <<detect, hostVars>>

\* const repeat = action.repeat || 1
repeatOf(action) ==
    IF action.repeat = Absent \/ action.repeat = 0 THEN 1 ELSE action.repeat

\* for (let i = 0; i < repeat; i++)
executeAction_keypressLoop ==
    /\ pc = "keyloop"
    /\ IF rep < repeatOf(actions[idx])
       THEN invoke(sessionMethod("keypress"), TRUE)
       ELSE /\ pc' = "post"
            /\ UNCHANGED <<inflight, callLog>>
    /\ UNCHANGED <<actions, idx, rep, now, startTime, actionStart, error,
                   started, warnings>>
    /\ UNCHANGED <<detect, hostVars>>

\* the awaited session call settles: it resolves, or rejects with a message
session_settles ==
    /\ pc = "await"
    /\ inflight.settles
    /\ \E d \in 0..MaxDelay :
         /\ inflight.raced => d <= TimeoutAction
         /\ now' = now + d
    /\ \E outcome \in {"ok"} \cup SessionErrors :
         /\ callLog' = settled(outcome)
         /\ IF outcome = "ok"
            THEN /\ IF inflight.op = "keypress"
                    THEN rep' = rep + 1 /\ pc' = "keyloop"
                    ELSE rep' = rep /\ pc' = "post"
                 /\ UNCHANGED <<idx, error, warnings>>
            ELSE /\ executeAction_catch(outcome)
                 /\ UNCHANGED rep
    /\ inflight' = NoCall
    /\ UNCHANGED <<actions, startTime, actionStart, started>>
    /\ UNCHANGED <<detect, hostVars>>

\* the timer of timeoutPromise(actionTimeout) wins the race
timeoutPromise_fires ==
    /\ pc = "await"
    /\ inflight.raced
    /\ now' = now + TimeoutAction
    /\ executeAction_catch(MsgActionTimeout)
    /\ inflight' = NoCall
    /\ callLog' = settled("abandoned")
    /\ UNCHANGED <<actions, rep, startTime, actionStart, started>>
    /\ UNCHANGED <<detect, hostVars>>

actionTookTooLong == now - actionStart > TimeoutAction

\* "Check if action took too long", and the normal end of executeAction
executeAction_postCheck ==
    /\ pc = "post"
    /\ IF actionTookTooLong
       THEN executeAction_catch(MsgActionTimeoutExceeded)
       ELSE /\ idx' = idx + 1
            /\ pc' = "loop"
            /\ UNCHANGED <<error, warnings>>
    /\ UNCHANGED <<actions, rep, now, startTime, actionStart, inflight,
                   started, callLog>>
    /\ UNCHANGED <<detect, hostVars>>

(***************************************************************************)
(* InteractionEngine.detectAndInteract.  `detect` holds the position of    *)
(* the call (the loop it is in and the index in that loop's list), the     *)
(* targets handed to session.evaluate so far, the target handed to         *)
(* session.click ("": none), and the numbers of matches, of clicks that    *)
(* were performed and of evaluate calls that rejected.  session.wait is a  *)
(* timer and does not reject.                                              *)
(***************************************************************************)
commonSelectors ==
    <<"button.start", "button.play", ".start-button", ".play-button",
      "[data-action=start]", "[data-action=play]", "#start", "#play",
      "button[id*=start i]", "button[id*=play i]", "button[class*=start i]",
      "button[class*=play i]">>

textButtons == <<"Start", "Play", "Begin", "Go">>

NoDetect == [pc |-> "idle", i |-> 0, evaluated |-> <<>>, clicked |-> "",
             matched |-> 0, clicksOk |-> 0, evaluateFailed |-> 0]

\* What one turn of a loop meets.  "absent": the evaluate yields a falsy
\* value (a remote session's evaluate yields undefined when the script or
\* the connection fails); "evaluateRaises": the evaluate rejects, which only
\* a local session's evaluate can do; "clicked" and "clickFailed": the match
\* is handed to session.click, which performs the click or swallows its
\* failure, and returns in both cases (click_catch).
SelectorTurns(kind) ==
    {"absent", "clicked", "clickFailed"}
        \cup (IF kind = "local" THEN {"evaluateRaises"} ELSE {})

\* in the text loop also: the second evaluate yields no selector
TextTurns(kind) == SelectorTurns(kind) \cup {"noSelector"}

\* await this.session.click(...); await this.session.wait(1000); return;
detect_clicked_continue(d, target, ok) ==
    [d EXCEPT !.clicked = target, !.matched = @ + 1,
              !.clicksOk = @ + (IF ok THEN 1 ELSE 0), !.i = @ + 1]

detect_clicked(d, target, ok) ==
    [d EXCEPT !.clicked = target, !.matched = @ + 1,
              !.clicksOk = @ + (IF ok THEN 1 ELSE 0), !.pc = "returned"]

\* one turn of either loop over `list`
detect_turn(d, list, turn) ==
    LET e == [d EXCEPT !.evaluated = Append(@, list[d.i])] IN
    CASE turn = "clicked" -> detect_clicked(e, list[d.i], TRUE)
      [] turn = "clickFailed" -> detect_clicked(e, list[d.i], FALSE)
      [] turn = "evaluateRaises" ->
            [e EXCEPT !.evaluateFailed = @ + 1, !.i = @ + 1]
      [] OTHER -> [e EXCEPT !.i = @ + 1]

detectAndInteract_begin ==
    /\ detect.pc = "idle"
    /\ session.kind # "none"
    /\ detect' = [detect EXCEPT !.pc = "css", !.i = 1]
    /\ UNCHANGED <<actions, pc, idx, rep, now, startTime, actionStart, inflight,
                   error, started, callLog, warnings, hostVars>>

\* for (const selector of commonSelectors)
detectAndInteract_selectors ==
    /\ detect.pc = "css"
    /\ IF detect.i > Len(commonSelectors)
       THEN detect' = [detect EXCEPT !.pc = "text", !.i = 1]
       ELSE \E turn \in SelectorTurns(session.kind) :
              detect' = detect_turn(detect, commonSelectors, turn)
    /\ UNCHANGED <<actions, pc, idx, rep, now, startTime, actionStart, inflight,
                   error, started, callLog, warnings, hostVars>>

\* for (const text of textButtons)
detectAndInteract_texts ==
    /\ detect.pc = "text"
    /\ IF detect.i > Len(textButtons)
       THEN detect' = [detect EXCEPT !.pc = "returned"]
       ELSE \E turn \in TextTurns(session.kind) :
              detect' = detect_turn(detect, textButtons, turn)
    /\ UNCHANGED <<actions, pc, idx, rep, now, startTime, actionStart, inflight,
                   error, started, callLog, warnings, hostVars>>

(***************************************************************************)
(* BrowserSession objects.                                                 *)
(*                                                                         *)
(* The record holds the private fields of the object (connectUrl, browser, *)
(* page, cdpSession) and, next to them, the state of the backend           *)
(* resources the fields refer to: connOpen counts the browser connections  *)
(* (or the local browser process) this session opened and did not close,   *)
(* attached says whether its CDP session is attached, contextOpen whether  *)
(* the local browser context is open, completed whether the remote         *)
(* Browserbase session was completed.                                      *)
(***************************************************************************)
\* no keypress call was made, the page has received no key event
NoKeys == [calls |-> 0, served |-> 0, downs |-> 0, ups |-> 0]

NoSession ==
    [kind |-> "none", connectUrl |-> FALSE, browser |-> "null", page |-> "null",
     cdpSession |-> "null", connOpen |-> 0, attached |-> FALSE,
     contextOpen |-> FALSE, completed |-> FALSE, keys |-> NoKeys]

NoOp == [op |-> "none"]

\* new BrowserbaseSession(client, sessionId, connectUrl, options)
BrowserbaseSession(connectUrl) ==
    [kind |-> "remote", connectUrl |-> connectUrl, browser |-> "null",
     page |-> "null", cdpSession |-> "null", connOpen |-> 0, attached |-> FALSE,
     contextOpen |-> FALSE, completed |-> FALSE, keys |-> NoKeys]

\* new LocalPlaywrightSession(browser, page, context, cdpSession, ...), as
\* LocalPlaywrightProvider.createSession builds it: the browser is launched,
\* the context and the page exist, the CDP session may have failed
LocalPlaywrightSession(cdp) ==
    [kind |-> "local", connectUrl |-> FALSE, browser |-> "set", page |-> "main",
     cdpSession |-> IF cdp THEN "set" ELSE "null", connOpen |-> 1,
     attached |-> cdp, contextOpen |-> TRUE, completed |-> FALSE,
     keys |-> NoKeys]

NewSessions ==
    {BrowserbaseSession(u) : u \in BOOLEAN} \cup {LocalPlaywrightSession(c) : c \in BOOLEAN}

(***************************************************************************)
(* BrowserbaseSession.ensureCDPConnection.  `fault` is the step of the     *)
(* bring-up that fails: none, no connect URL from any discovery method,    *)
(* connectOverCDP, no browser context, newPage, newCDPSession.             *)
(***************************************************************************)
EnsureFaults == {"none", "noUrl", "connect", "noContexts", "newPage", "newCDPSession"}

\* if (this.page && this.cdpSession) return;
alreadyConnected_never(s) == FALSE

alreadyConnected(s) == s.page # "null" /\ s.cdpSession # "null"

ensureCDPConnection(s, fault) ==
    IF alreadyConnected(s)
    THEN [s |-> s, raised |-> FALSE]
    ELSE IF ~s.connectUrl /\ fault = "noUrl"
    THEN [s |-> s, raised |-> TRUE]
    ELSE LET s1 == [s EXCEPT !.connectUrl = TRUE] IN
         IF fault = "connect"
         THEN [s |-> s1, raised |-> TRUE]
         ELSE LET s2 == [s1 EXCEPT !.browser = "set", !.connOpen = @ + 1] IN
              IF fault \in {"noContexts", "newPage"}
              THEN [s |-> s2, raised |-> TRUE]
              ELSE LET s3 == [s2 EXCEPT !.page = "main"] IN
                   IF fault = "newCDPSession"
                   THEN [s |-> s3, raised |-> TRUE]
                   ELSE [s |-> [s3 EXCEPT !.cdpSession = "set", !.attached = TRUE],
                         raised |-> FALSE]

(***************************************************************************)
(* navigate(url).  `goto` says how far the page load gets: "loaded" (the   *)
(* domcontentloaded wait succeeds), "committed" (only the commit wait      *)
(* succeeds), "unwaited" (only the goto without wait condition succeeds),  *)
(* "failed" (every goto rejects).  The result carries the tier that ended  *)
(* the call (0: none was tried) and the settle wait in ms.                 *)
(***************************************************************************)
GotoOutcomes == {"loaded", "committed", "unwaited", "failed"}

\* the outer catch of BrowserbaseSession.navigate: warn, wait(3000)
navigate_catch_rethrow(r) == r

navigate_catch(r) ==
    IF r.raised THEN [r EXCEPT !.raised = FALSE, !.settle = 3000] ELSE r

BrowserbaseSession_navigate(s, fault, goto, sdkOk) ==
    LET e == ensureCDPConnection(s, fault)
        body ==
          IF e.raised
          THEN [s |-> e.s, raised |-> TRUE, tier |-> 0, settle |-> 0]
          ELSE IF e.s.page # "null"
          THEN CASE goto = "loaded" ->
                      [s |-> e.s, raised |-> FALSE, tier |-> 1, settle |-> 2000]
                 [] goto = "committed" ->
                      [s |-> e.s, raised |-> FALSE, tier |-> 2, settle |-> 3000]
                 [] OTHER ->
                      [s |-> e.s, raised |-> FALSE, tier |-> 3, settle |-> 3000]
          ELSE IF sdkOk
          THEN [s |-> e.s, raised |-> FALSE, tier |-> 0, settle |-> 3000]
          ELSE [s |-> e.s, raised |-> TRUE, tier |-> 0, settle |-> 0]
    IN navigate_catch(body)

\* the catch of LocalPlaywrightSession.navigate: warn, wait(3000)
LocalPlaywrightSession_navigate(s, goto) ==
    IF goto = "loaded"
    THEN [s |-> s, raised |-> FALSE, tier |-> 1, settle |-> 2000]
    ELSE navigate_catch([s |-> s, raised |-> TRUE, tier |-> 1, settle |-> 0])

(***************************************************************************)
(* screenshot().  `repaint` is what the in-page repaint/settle script      *)
(* does, `capture` what the capture call does: it yields image data,       *)
(* yields no data (remote: CDP answers without `data`), rejects, or never  *)
(* settles.  Playwright's page.screenshot resolves with the image or       *)
(* rejects, so the local capture has no "nodata" outcome.                  *)
(* The result is "returned" with a buffer, "raised", or "hung".            *)
(***************************************************************************)
RepaintOutcomes == {"ok", "raise", "hang"}

CaptureOutcomes(kind) ==
    IF kind = "remote" THEN {"data", "nodata", "raise", "hang"}
    ELSE {"data", "raise", "hang"}

\* Buffer.from(result.data, 'base64') / the buffer page.screenshot yields
bufferOf(capture) == IF capture = "data" THEN "png" ELSE "empty"

\* if (!result || !result.data) throw
captureFailed_ignoreNoData(capture) == capture = "raise"

captureFailed(capture) == capture \in {"raise", "nodata"}

\* durations (timing.duration, in ms) of the animations document.getAnimations()
\* reports while the repaint script runs
AnimationDurations == {0, 150, 400}

AnimationSets == SUBSET AnimationDurations

Max(a, b) == IF a >= b THEN a ELSE b

Min(a, b) == IF a <= b THEN a ELSE b

\* Math.max(...animations.map(a => (timing?.duration || 0) * 1000))
maxDuration(anims) ==
    (CHOOSE d \in anims : \A x \in anims : x <= d) * 1000

\* the delay of the setTimeout the remote repaint script resolves after
BrowserbaseSession_repaintDelay(anims) ==
    IF anims # {} THEN Max(maxDuration(anims) + 100, 300) ELSE 300

\* the same for the local repaint script
LocalPlaywrightSession_repaintDelay(anims) ==
    IF anims # {} THEN Min(maxDuration(anims) + 100, 500) ELSE 200

\* `settle` is the wait in ms between the start of the repaint step and the
\* capture
BrowserbaseSession_screenshot(s, fault, repaint, anims, capture) ==
    LET e == ensureCDPConnection(s, fault)
        settle == IF e.s.page # "null" /\ repaint = "ok"
                  THEN BrowserbaseSession_repaintDelay(anims)
                  ELSE 300
    IN
    IF e.raised \/ e.s.cdpSession = "null"
    THEN [s |-> e.s, status |-> "raised", buffer |-> "none", settle |-> 0]
    ELSE IF e.s.page # "null" /\ repaint = "hang"
    THEN [s |-> e.s, status |-> "hung", buffer |-> "none", settle |-> 0]
    ELSE IF capture = "hang"
    THEN [s |-> e.s, status |-> "hung", buffer |-> "none", settle |-> settle]
    ELSE IF captureFailed(capture)
    THEN [s |-> e.s, status |-> "raised", buffer |-> "none", settle |-> settle]
    ELSE [s |-> e.s, status |-> "returned", buffer |-> bufferOf(capture),
          settle |-> settle]

\* the repaint is raced against a 1000 ms timer and the capture against a
\* 10 s timer, so neither can hang
LocalPlaywrightSession_screenshot(s, repaint, anims, capture) ==
    LET settle == CASE repaint = "ok" -> LocalPlaywrightSession_repaintDelay(anims)
                    [] repaint = "raise" -> 100
                    [] OTHER -> 1000 + 100
    IN
    IF capture = "hang" \/ captureFailed(capture)
    THEN [s |-> s, status |-> "raised", buffer |-> "none", settle |-> settle]
    ELSE [s |-> s, status |-> "returned", buffer |-> bufferOf(capture),
          settle |-> settle]

(***************************************************************************)
(* close().  Each backend release call either succeeds (the resource is    *)
(* released) or rejects (it is left as it was).  `released` lists the      *)
(* release calls made, `freed` those of them that succeeded.               *)
(***************************************************************************)
CloseOutcomes == [detach : BOOLEAN, browserClose : BOOLEAN, contextClose : BOOLEAN,
                  complete : BOOLEAN]

BrowserbaseSession_close(s, o) ==
    LET hasCdp == s.cdpSession # "null"
        hasBrowser == s.browser # "null"
        \* try { detach; browser.close; page = null } catch { warn }
        caughtAtDetach == hasCdp /\ ~o.detach
        s1 == IF hasCdp /\ o.detach
              THEN [s EXCEPT !.cdpSession = "null", !.attached = FALSE]
              ELSE s
        reachesBrowser == ~caughtAtDetach /\ hasBrowser
        caughtAtBrowser == reachesBrowser /\ ~o.browserClose
        s2 == IF reachesBrowser /\ o.browserClose
              THEN [s1 EXCEPT !.browser = "null", !.connOpen = @ - 1, !.attached = FALSE]
              ELSE s1
        s3 == IF ~caughtAtDetach /\ ~caughtAtBrowser
              THEN [s2 EXCEPT !.page = "null"]
              ELSE s2
        \* await this.client.completeSession(this.sessionId)
        s4 == IF o.complete THEN [s3 EXCEPT !.completed = TRUE] ELSE s3
    IN [s |-> s4,
        raised |-> ~o.complete,
        released |-> (IF hasCdp THEN {"detach"} ELSE {})
                     \cup (IF reachesBrowser THEN {"browser.close"} ELSE {})
                     \cup {"completeSession"},
        freed |-> (IF hasCdp /\ o.detach THEN {"detach"} ELSE {})
                  \cup (IF reachesBrowser /\ o.browserClose THEN {"browser.close"} ELSE {})
                  \cup (IF o.complete THEN {"completeSession"} ELSE {})]

LocalPlaywrightSession_close(s, o) ==
    LET hasCdp == s.cdpSession # "null"
        s1 == IF hasCdp /\ o.detach THEN [s EXCEPT !.attached = FALSE] ELSE s
        s2 == IF o.contextClose THEN [s1 EXCEPT !.contextOpen = FALSE] ELSE s1
        s3 == IF o.browserClose
              THEN [s2 EXCEPT !.connOpen = 0, !.contextOpen = FALSE, !.attached = FALSE]
              ELSE s2
    IN [s |-> s3,
        raised |-> FALSE,
        released |-> (IF hasCdp THEN {"detach"} ELSE {})
                     \cup {"context.close", "browser.close"},
        freed |-> (IF hasCdp /\ o.detach THEN {"detach"} ELSE {})
                  \cup (IF o.contextClose THEN {"context.close"} ELSE {})
                  \cup (IF o.browserClose THEN {"browser.close"} ELSE {})]

(***************************************************************************)
(* click(selector).  The remote session tries page.click, then a CDP       *)
(* mouse press/release at the centre of the element's bounding box, then   *)
(* an in-page element.click().  `tiers` lists the tiers attempted, in the  *)
(* order of the attempts, each with its success.                           *)
(***************************************************************************)
ClickTierOrder == <<"native", "cdp", "dom">>

\* the CDP tier: it works, querySelector finds no element, or one of its
\* calls (the locating evaluate, mousePressed, mouseReleased) rejects
ClickCdpOutcomes == {"ok", "noElement", "locateRaises", "pressRaises", "releaseRaises"}

\* the in-page click: the evaluate returns true, returns false, or rejects
ClickDomOutcomes == {"clicked", "notClickable", "raises"}

tried(tier, ok) == [tier |-> tier, ok |-> ok]

\* the outer catch of BrowserbaseSession.click: warn, wait(500)
click_catch_rethrow(r) == r

click_catch(r) ==
    IF r.raised THEN [r EXCEPT !.raised = FALSE, !.logged = TRUE, !.settle = 500] ELSE r

BrowserbaseSession_click(s, fault, focusOk, native, cdp, dom) ==
    LET e == ensureCDPConnection(s, fault)
        \* Input.dispatchMouseEvent calls that were sent
        mouse == IF e.raised \/ ~focusOk \/ native \/ e.s.cdpSession = "null"
                 THEN <<>>
                 ELSE CASE cdp = "ok" -> <<"mousePressed", "mouseReleased">>
                        [] cdp = "releaseRaises" -> <<"mousePressed">>
                        [] OTHER -> <<>>
        done(t) == [s |-> e.s, raised |-> FALSE, logged |-> FALSE, tiers |-> t,
                    mouse |-> mouse, settle |-> 300]
        fail(t) == [s |-> e.s, raised |-> TRUE, logged |-> FALSE, tiers |-> t,
                    mouse |-> mouse, settle |-> 0]
        body ==
          IF e.raised \/ e.s.page = "null" THEN fail(<<>>)
          \* bringToFront, the focus evaluate
          ELSE IF ~focusOk THEN fail(<<>>)
          ELSE IF native THEN done(<<tried("native", TRUE)>>)
          ELSE IF e.s.cdpSession # "null"
          THEN IF cdp = "ok"
               THEN done(<<tried("native", FALSE), tried("cdp", TRUE)>>)
               ELSE IF dom = "clicked"
               THEN done(<<tried("native", FALSE), tried("cdp", FALSE),
                           tried("dom", TRUE)>>)
               ELSE fail(<<tried("native", FALSE), tried("cdp", FALSE),
                           tried("dom", FALSE)>>)
          ELSE IF dom = "clicked"
          THEN done(<<tried("native", FALSE), tried("dom", TRUE)>>)
          ELSE fail(<<tried("native", FALSE), tried("dom", FALSE)>>)
    IN click_catch(body)

\* focus('body'), page.click; catch: warn, wait(100)
LocalPlaywrightSession_click(s, focusOk, native) ==
    IF focusOk /\ native
    THEN [s |-> s, raised |-> FALSE, logged |-> FALSE,
          tiers |-> <<tried("native", TRUE)>>, mouse |-> <<>>, settle |-> 200]
    ELSE [s |-> s, raised |-> FALSE, logged |-> TRUE,
          tiers |-> IF focusOk THEN <<tried("native", FALSE)>> ELSE <<>>,
          mouse |-> <<>>, settle |-> 100]

(***************************************************************************)
(* clickByText(text, {exact}).  The remote session tries four locator      *)
(* strategies (getByRole, getByText, locator('button').filter, XPath),     *)
(* each in its own try/catch, then an in-page search over the buttons.     *)
(* `found[i]` says whether strategy i finds and clicks a match.  The local *)
(* session tries getByText, then every XPath match.  `clickedBy` is the    *)
(* strategy that clicked (0: none), `caught` says the outer catch ran.     *)
(***************************************************************************)
LocatorStrategies == 1..4

FallbackOutcomes == {"clicked", "none", "raises"}

\* strategies are tried in order: the first that finds and clicks returns
firstFound(found) ==
    IF \E i \in LocatorStrategies : found[i]
    THEN CHOOSE i \in LocatorStrategies :
           found[i] /\ \A j \in LocatorStrategies : j < i => ~found[j]
    ELSE 0

\* catch (error) { console.warn(...); return false; }
clickByText_catch_rethrow(r) == r

clickByText_catch(r) ==
    IF r.raised
    THEN [r EXCEPT !.raised = FALSE, !.result = FALSE, !.caught = TRUE]
    ELSE r

BrowserbaseSession_clickByText(s, fault, found, fallback) ==
    LET e == ensureCDPConnection(s, fault)
        ret(result, by) == [s |-> e.s, raised |-> FALSE, caught |-> FALSE,
                            result |-> result, clickedBy |-> by]
        body ==
          IF e.raised
          THEN [s |-> e.s, raised |-> TRUE, caught |-> FALSE, result |-> FALSE,
                clickedBy |-> 0]
          ELSE IF e.s.page = "null" THEN ret(FALSE, 0)
          ELSE IF firstFound(found) # 0 THEN ret(TRUE, firstFound(found))
          ELSE CASE fallback = "clicked" -> ret(TRUE, 5)
                 [] fallback = "none" -> ret(FALSE, 0)
                 [] OTHER -> [s |-> e.s, raised |-> TRUE, caught |-> FALSE,
                              result |-> FALSE, clickedBy |-> 0]
    IN clickByText_catch(body)

\* what the XPath fallback of the local session does: no visible match, a
\* visible match that is clicked, a visible match whose click rejects, or
\* the locator query itself rejects
XPathOutcomes == {"none", "clicked", "clickRaises", "queryRaises"}

LocalPlaywrightSession_clickByText(s, focusOk, visible, clickOk, xpath) ==
    LET ret(result, by) == [s |-> s, raised |-> FALSE, caught |-> FALSE,
                            result |-> result, clickedBy |-> by]
        throw == [s |-> s, raised |-> TRUE, caught |-> FALSE, result |-> FALSE,
                  clickedBy |-> 0]
        body ==
          IF ~focusOk THEN throw
          ELSE IF visible
          THEN IF clickOk THEN ret(TRUE, 1) ELSE throw
          ELSE CASE xpath = "clicked" -> ret(TRUE, 2)
                 [] xpath = "none" -> ret(FALSE, 0)
                 [] OTHER -> throw
    IN clickByText_catch(body)

(***************************************************************************)
(* keypress(key).  The remote session focuses the page, then sends keyDown *)
(* and keyUp over CDP; when one of the two CDP calls rejects, its catch    *)
(* presses the key again with page.keyboard.down/up.  `events` lists the   *)
(* key events that reached the page, each with the path that sent it; a    *)
(* call that rejected delivered nothing.  `path` is the path that ran to   *)
(* its end ("none": the outer catch ran).  The `keys` field of the session *)
(* counts the calls and the key events the page has received so far.       *)
(***************************************************************************)
KeyPathOutcomes == {"ok", "downRaises", "upRaises"}

keyEvent(type, via) == [type |-> type, via |-> via]

\* the events one path delivers before it completes or rejects
delivered(via, outcome) ==
    CASE outcome = "ok" -> <<keyEvent("keyDown", via), keyEvent("keyUp", via)>>
      [] outcome = "upRaises" -> <<keyEvent("keyDown", via)>>
      [] OTHER -> <<>>

count(events, type) == Cardinality({i \in 1..Len(events) : events[i].type = type})

received(s, events, path) ==
    [s EXCEPT !.keys = [calls |-> @.calls + 1,
                        served |-> @.served + (IF path = "none" THEN 0 ELSE 1),
                        downs |-> @.downs + count(events, "keyDown"),
                        ups |-> @.ups + count(events, "keyUp")]]

\* the outer catch of keypress: warn, wait(100)
keypress_catch_rethrow(r) == r

keypress_catch(r) ==
    IF r.raised THEN [r EXCEPT !.raised = FALSE, !.settle = 100] ELSE r

BrowserbaseSession_keypress(s, fault, focusOk, cdp, kb) ==
    LET e == ensureCDPConnection(s, fault)
        res(raised, focused, path, events) ==
            [s |-> received(e.s, events, path), raised |-> raised,
             focused |-> focused, path |-> path, events |-> events, cdp |-> cdp,
             settle |-> IF raised THEN 0 ELSE 100]
        body ==
          IF e.raised \/ e.s.page = "null" THEN res(TRUE, FALSE, "none", <<>>)
          ELSE IF ~focusOk THEN res(TRUE, FALSE, "none", <<>>)
          ELSE IF e.s.cdpSession # "null"
          THEN IF cdp = "ok"
               THEN res(FALSE, TRUE, "cdp", delivered("cdp", cdp))
               ELSE res(kb # "ok", TRUE, IF kb = "ok" THEN "keyboard" ELSE "none",
                        delivered("cdp", cdp) \o delivered("keyboard", kb))
          ELSE res(kb # "ok", TRUE, IF kb = "ok" THEN "keyboard" ELSE "none",
                   delivered("keyboard", kb))
    IN keypress_catch(body)

\* focus('body'), bringToFront, keyboard.press, wait(100); catch: wait(100)
LocalPlaywrightSession_keypress(s, focusOk, pressOk) ==
    LET ok == focusOk /\ pressOk
        events == IF ok THEN delivered("keyboard", "ok") ELSE <<>>
        path == IF ok THEN "keyboard" ELSE "none"
    IN [s |-> received(s, events, path), raised |-> FALSE, focused |-> focusOk,
        path |-> path, events |-> events, cdp |-> "unused", settle |-> 100]

(***************************************************************************)
(* switchToIframe(selector?).  `selector` says what the optional selector  *)
(* does: none given, it matches an iframe with a content frame, it matches *)
(* nothing, or it matches an element without a content frame.  `iframes`   *)
(* is what page.$$('iframe') yields, each with the bounding box in pixels  *)
(* (`visible` FALSE: boundingBox() is null); `queryOk` FALSE: a page query *)
(* rejects.  `entered` is the index of the iframe entered as the largest   *)
(* (0: none).                                                              *)
(***************************************************************************)
SelectorOutcomes == {"none", "matched", "unmatched", "noFrame"}

IframeBoxes ==
    {[w |-> 100, h |-> 100, visible |-> TRUE], [w |-> 400, h |-> 400, visible |-> TRUE],
     [w |-> 800, h |-> 600, visible |-> TRUE], [w |-> 800, h |-> 600, visible |-> FALSE]}

IframeLists == UNION {[1..n -> IframeBoxes] : n \in 0..MaxIframes}

MinIframeSide == 400

\* area > 400 * 400
exceedsMinimumArea_ge(area) == area >= MinIframeSide * MinIframeSide

exceedsMinimumArea(area) == area > MinIframeSide * MinIframeSide

\* for (const iframe of iframes) { ... if (area > maxArea && area > 400 * 400) }
RECURSIVE largestIframe(_, _, _, _)
largestIframe(iframes, i, maxArea, best) ==
    IF i > Len(iframes) THEN best
    ELSE LET area == iframes[i].w * iframes[i].h IN
         IF iframes[i].visible /\ area > maxArea /\ exceedsMinimumArea(area)
         THEN largestIframe(iframes, i + 1, area, i)
         ELSE largestIframe(iframes, i + 1, maxArea, best)

\* the body of switchToIframe once the page is available
enterIframe(s, selector, iframes, queryOk) ==
    LET stay(raised) == [s |-> s, raised |-> raised, result |-> FALSE, entered |-> 0,
                         by |-> "none"]
        best == largestIframe(iframes, 1, 0, 0)
    IN IF ~queryOk THEN stay(TRUE)
       ELSE IF selector = "matched"
       THEN [s |-> [s EXCEPT !.page = "iframe"], raised |-> FALSE, result |-> TRUE,
             entered |-> 0, by |-> "selector"]
       ELSE IF iframes = <<>> \/ best = 0 THEN stay(FALSE)
       ELSE [s |-> [s EXCEPT !.page = "iframe"], raised |-> FALSE, result |-> TRUE,
             entered |-> best, by |-> "largest"]

\* catch (error) { return false; }
switchToIframe_catch(r) ==
    IF r.raised THEN [r EXCEPT !.raised = FALSE, !.result = FALSE] ELSE r

BrowserbaseSession_switchToIframe(s, fault, selector, iframes, queryOk) ==
    LET e == ensureCDPConnection(s, fault) IN
    switchToIframe_catch(
      IF e.raised
      THEN [s |-> e.s, raised |-> TRUE, result |-> FALSE, entered |-> 0, by |-> "none"]
      ELSE IF e.s.page = "null"
      THEN [s |-> e.s, raised |-> FALSE, result |-> FALSE, entered |-> 0, by |-> "none"]
      ELSE enterIframe(e.s, selector, iframes, queryOk))

LocalPlaywrightSession_switchToIframe(s, selector, iframes, queryOk) ==
    switchToIframe_catch(enterIframe(s, selector, iframes, queryOk))

(***************************************************************************)
(* evaluate(script).  `script` says what page.evaluate meets: "value" (the *)
(* script yields a value), "throws" (the script throws in the page),       *)
(* "callFails" (the call itself fails, e.g. the target is gone).           *)
(***************************************************************************)
ScriptOutcomes == {"value", "throws", "callFails"}

\* the catch of BrowserbaseSession.evaluate: warn, return undefined
evaluate_catch(r) ==
    IF r.raised THEN [r EXCEPT !.raised = FALSE, !.value = "undefined"] ELSE r

BrowserbaseSession_evaluate(s, fault, script) ==
    LET e == ensureCDPConnection(s, fault)
        body ==
          IF e.raised \/ e.s.page = "null" \/ script # "value"
          THEN [s |-> e.s, raised |-> TRUE, value |-> "none"]
          ELSE [s |-> e.s, raised |-> FALSE, value |-> "result"]
    IN evaluate_catch(body)

LocalPlaywrightSession_evaluate(s, script) ==
    IF script = "value"
    THEN [s |-> s, raised |-> FALSE, value |-> "result"]
    ELSE [s |-> s, raised |-> TRUE, value |-> "none"]

(***************************************************************************)
(* Console logs.  `consoleLogs` holds both sides: for a remote session the *)
(* array window.__qaConsoleLogs of the current document (`page`) and       *)
(* whether the interceptor is installed in it (`hooked`); for a local      *)
(* session the array filled by the page.on handlers (`buffer`).  Entries   *)
(* are numbered in the order the page produced them (`emitted` counts      *)
(* them); `returned` is the result of the latest getConsoleLogs call.      *)
(***************************************************************************)
NoConsole == [hooked |-> FALSE, page |-> <<>>, buffer |-> <<>>, emitted |-> 0,
              returned |-> <<>>]

\* a navigation that commits replaces the document and with it `window`
newDocument(c) == [c EXCEPT !.hooked = FALSE, !.page = <<>>]

\* what the page does: a call of console.log, console.warn or
\* console.debug, or an uncaught error.  Playwright's msg.type() names the
\* method, with "warning" for console.warn.
ConsoleEvents == {"log", "warn", "debug", "pageerror"}

msgType(event) == IF event = "warn" THEN "warning" ELSE event

\* const level = msg.type() as 'log' | 'warn' | 'error' | 'info'; an
\* uncaught error is pushed with level 'error'
localLevel(event) == IF event = "pageerror" THEN "error" ELSE msgType(event)

\* console.log, console.warn, console.error and console.info are wrapped
intercepted(event) == event \in {"log", "warn", "error", "info"}

\* the page calls a console method or raises an uncaught error
consoleMessage(kind, event, c) ==
    LET n == c.emitted + 1 IN
    IF kind = "local"
    THEN [c EXCEPT !.emitted = n,
                   !.buffer = Append(@, [n |-> n, level |-> localLevel(event)])]
    ELSE IF c.hooked /\ intercepted(event)
    THEN [c EXCEPT !.emitted = n, !.page = Append(@, [n |-> n, level |-> event])]
    ELSE [c EXCEPT !.emitted = n]

\* the script of BrowserbaseSession.getConsoleLogs, run in the document
installInterceptor(c) ==
    IF c.hooked THEN c ELSE [c EXCEPT !.hooked = TRUE, !.page = <<>>]

BrowserbaseSession_getConsoleLogs(s, c, fault, script) ==
    LET r == BrowserbaseSession_evaluate(s, fault, script) IN
    IF r.value = "result"
    THEN [s |-> r.s, c |-> installInterceptor(c), raised |-> FALSE,
          logs |-> installInterceptor(c).page]
    ELSE [s |-> r.s, c |-> c, raised |-> FALSE, logs |-> <<>>]

LocalPlaywrightSession_getConsoleLogs(s, c) ==
    [s |-> s, c |-> c, raised |-> FALSE, logs |-> c.buffer]

(***************************************************************************)
(* clickAt(x, y).  `cdp` and `mouse` say whether the CDP mouse events and  *)
(* page.mouse.click go through.                                            *)
(***************************************************************************)
ClickAtOutcomes == {"ok", "raise"}

BrowserbaseSession_clickAt(s, fault, cdp, mouse) ==
    LET e == ensureCDPConnection(s, fault) IN
    IF e.raised
    THEN [s |-> e.s, raised |-> FALSE, result |-> FALSE]
    ELSE IF e.s.cdpSession # "null" /\ cdp = "ok"
    THEN [s |-> e.s, raised |-> FALSE, result |-> TRUE]
    ELSE IF e.s.page # "null"
    THEN [s |-> e.s, raised |-> FALSE, result |-> mouse = "ok"]
    ELSE [s |-> e.s, raised |-> FALSE, result |-> FALSE]

LocalPlaywrightSession_clickAt(s, mouse) ==
    [s |-> s, raised |-> FALSE, result |-> mouse = "ok"]

(***************************************************************************)
(* BrowserbaseSession.ensureCDPConnection step by step.  Each call in      *)
(* `calls` is one invocation that has passed the early return and waits at *)
(* one of its awaits: "url" (the connect URL discovery), "connect"         *)
(* (chromium.connectOverCDP), "cdp" (newCDPSession).  `abandoned` says     *)
(* that the executor's timer has won the race and nobody awaits the call.  *)
(***************************************************************************)
UrlOutcomes == {"found", "empty", "throws"}

ConnectFaults == {"none", "connect", "noContexts", "newPage"}

unawaited(cs) == \A i \in 1..Len(cs) : cs[i].abandoned

without(cs, i) == SubSeq(cs, 1, i - 1) \o SubSeq(cs, i + 1, Len(cs))

\* the call enters: if (this.page && this.cdpSession) return; otherwise it
\* goes to its first await
ensureCDPConnection_enter(s, cs) ==
    IF alreadyConnected(s)
    THEN cs
    ELSE Append(cs, [pc |-> IF s.connectUrl THEN "connect" ELSE "url",
                     abandoned |-> FALSE])

\* the discovery methods have answered: this.connectUrl = ... || null, or
\* every method threw; then if (!this.connectUrl) throw
ensureCDPConnection_url(s, cs, i, outcome) ==
    LET url == CASE outcome = "found" -> TRUE
                 [] outcome = "empty" -> FALSE
                 [] OTHER -> s.connectUrl
    IN [s |-> [s EXCEPT !.connectUrl = url],
        calls |-> IF url THEN [cs EXCEPT ![i].pc = "connect"] ELSE without(cs, i)]

\* connectOverCDP has answered: this.browser = ..., contexts(), this.page = ...
ensureCDPConnection_connect(s, cs, i, fault) ==
    IF fault = "connect"
    THEN [s |-> s, calls |-> without(cs, i)]
    ELSE LET s2 == [s EXCEPT !.browser = "set", !.connOpen = @ + 1] IN
         IF fault \in {"noContexts", "newPage"}
         THEN [s |-> s2, calls |-> without(cs, i)]
         ELSE [s |-> [s2 EXCEPT !.page = "main"],
               calls |-> [cs EXCEPT ![i].pc = "cdp"]]

\* newCDPSession has answered: this.cdpSession = ...
ensureCDPConnection_cdp(s, cs, i, ok) ==
    [s |-> IF ok THEN [s EXCEPT !.cdpSession = "set", !.attached = TRUE] ELSE s,
     calls |-> without(cs, i)]

(***************************************************************************)
(* switchToMainFrame().  `pages` says what this.browser.pages() does in    *)
(* the remote session: it rejects (or is no function of the browser        *)
(* object), it yields no page, or it yields the pages of the browser.      *)
(***************************************************************************)
PagesOutcomes == {"raises", "empty", "pages"}

\* catch (error) { console.warn('Switching to main frame failed:', error) }
switchToMainFrame_catch(r) ==
    IF r.raised THEN [r EXCEPT !.raised = FALSE] ELSE r

BrowserbaseSession_switchToMainFrame(s, fault, pages) ==
    LET e == ensureCDPConnection(s, fault) IN
    switchToMainFrame_catch(
      IF e.raised
      THEN [s |-> e.s, raised |-> TRUE, warned |-> TRUE]
      ELSE IF e.s.browser = "null"
      THEN [s |-> e.s, raised |-> FALSE, warned |-> FALSE]
      ELSE IF pages = "raises"
      THEN [s |-> e.s, raised |-> TRUE, warned |-> TRUE]
      ELSE IF pages = "empty"
      THEN [s |-> e.s, raised |-> FALSE, warned |-> FALSE]
      ELSE [s |-> [e.s EXCEPT !.page = "main"], raised |-> FALSE, warned |-> FALSE])

\* console.warn('switchToMainFrame not fully supported in local mode')
LocalPlaywrightSession_switchToMainFrame(s) ==
    [s |-> s, raised |-> FALSE, warned |-> TRUE]

(***************************************************************************)
(* Calls on a session, by any caller.                                      *)
(***************************************************************************)
session_navigate ==
    /\ session.kind # "none"
    /\ opCount < MaxSessionOps
    /\ \E x \in IF session.kind = "remote"
               THEN {<<BrowserbaseSession_navigate(session, fault, goto, sdkOk), goto>> :
                       fault \in EnsureFaults, goto \in GotoOutcomes, sdkOk \in BOOLEAN}
               ELSE {<<LocalPlaywrightSession_navigate(session, goto), goto>> :
                       goto \in GotoOutcomes} :
         LET r == x[1] IN
         /\ session' = r.s
         /\ lastOp' = [op |-> "navigate", raised |-> r.raised, tier |-> r.tier,
                       settle |-> r.settle, goto |-> x[2],
                       connected |-> session.kind = "local" \/ r.s.cdpSession # "null"]
         /\ consoleLogs' = IF r.tier >= 1 /\ x[2] # "failed"
                           THEN newDocument(consoleLogs) ELSE consoleLogs
    /\ opCount' = opCount + 1
    /\ UNCHANGED <<closeLog, engineVars, runVars>>

session_screenshot ==
    /\ session.kind # "none"
    /\ opCount < MaxSessionOps
    /\ \E repaint \in RepaintOutcomes, capture \in CaptureOutcomes(session.kind) :
       \E anims \in IF repaint = "ok" THEN AnimationSets ELSE {{}} :
       \E r \in IF session.kind = "remote"
               THEN {BrowserbaseSession_screenshot(session, fault, repaint, anims, capture) :
                       fault \in EnsureFaults}
               ELSE {LocalPlaywrightSession_screenshot(session, repaint, anims, capture)} :
         /\ session' = r.s
         /\ lastOp' = [op |-> "screenshot", status |-> r.status, buffer |-> r.buffer,
                       repaint |-> repaint, capture |-> capture, anims |-> anims,
                       settle |-> r.settle,
                       connected |-> session.kind = "local" \/ r.s.cdpSession # "null"]
    /\ opCount' = opCount + 1
    /\ UNCHANGED <<closeLog, consoleLogs, engineVars, runVars>>

session_close ==
    /\ session.kind # "none"
    /\ opCount < MaxSessionOps
    /\ unawaited(calls)
    /\ \E r \in IF session.kind = "remote"
               THEN {BrowserbaseSession_close(session, o) : o \in CloseOutcomes}
               ELSE {LocalPlaywrightSession_close(session, o) : o \in CloseOutcomes} :
         /\ session' = r.s
         /\ lastOp' = [op |-> "close", raised |-> r.raised, released |-> r.released,
                       freed |-> r.freed]
         /\ closeLog' = Append(closeLog, [raised |-> r.raised, released |-> r.released,
                                           freed |-> r.freed])
    /\ opCount' = opCount + 1
    /\ UNCHANGED <<consoleLogs, engineVars, runVars>>

session_click ==
    /\ session.kind # "none"
    /\ opCount < MaxSessionOps
    /\ \E r \in IF session.kind = "remote"
               THEN {BrowserbaseSession_click(session, fault, focusOk, native, cdp, dom) :
                       fault \in EnsureFaults, focusOk \in BOOLEAN, native \in BOOLEAN,
                       cdp \in ClickCdpOutcomes, dom \in ClickDomOutcomes}
               ELSE {LocalPlaywrightSession_click(session, focusOk, native) :
                       focusOk \in BOOLEAN, native \in BOOLEAN} :
         /\ session' = r.s
         /\ lastOp' = [op |-> "click", kind |-> session.kind, raised |-> r.raised,
                       logged |-> r.logged, tiers |-> r.tiers, mouse |-> r.mouse,
                       settle |-> r.settle]
    /\ opCount' = opCount + 1
    /\ UNCHANGED <<closeLog, consoleLogs, engineVars, runVars>>

session_clickByText ==
    /\ session.kind # "none"
    /\ opCount < MaxSessionOps
    /\ \E r \in IF session.kind = "remote"
               THEN {BrowserbaseSession_clickByText(session, fault, found, fallback) :
                       fault \in EnsureFaults, found \in [LocatorStrategies -> BOOLEAN],
                       fallback \in FallbackOutcomes}
               ELSE {LocalPlaywrightSession_clickByText(session, focusOk, visible,
                                                        clickOk, xpath) :
                       focusOk \in BOOLEAN, visible \in BOOLEAN, clickOk \in BOOLEAN,
                       xpath \in XPathOutcomes} :
         /\ session' = r.s
         /\ lastOp' = [op |-> "clickByText", kind |-> session.kind,
                       raised |-> r.raised, caught |-> r.caught,
                       result |-> r.result, clickedBy |-> r.clickedBy,
                       connected |-> session.kind = "local" \/ r.s.cdpSession # "null"]
    /\ opCount' = opCount + 1
    /\ UNCHANGED <<closeLog, consoleLogs, engineVars, runVars>>

session_keypress ==
    /\ session.kind # "none"
    /\ opCount < MaxSessionOps
    /\ \E r \in IF session.kind = "remote"
               THEN {BrowserbaseSession_keypress(session, fault, focusOk, cdp, kb) :
                       fault \in EnsureFaults, focusOk \in BOOLEAN,
                       cdp \in KeyPathOutcomes, kb \in KeyPathOutcomes}
               ELSE {LocalPlaywrightSession_keypress(session, focusOk, pressOk) :
                       focusOk \in BOOLEAN, pressOk \in BOOLEAN} :
         /\ session' = r.s
         /\ lastOp' = [op |-> "keypress", kind |-> session.kind, raised |-> r.raised,
                       focused |-> r.focused, path |-> r.path, events |-> r.events,
                       cdp |-> r.cdp, settle |-> r.settle]
    /\ opCount' = opCount + 1
    /\ UNCHANGED <<closeLog, consoleLogs, engineVars, runVars>>

\* the iframe list is only read when the queries work and the selector did
\* not already decide the call
session_switchToIframe ==
    /\ session.kind # "none"
    /\ opCount < MaxIframeOps
    /\ \E selector \in SelectorOutcomes, queryOk \in BOOLEAN :
       \E iframes \in IF queryOk /\ selector # "matched" THEN IframeLists ELSE {<<>>} :
       \E r \in IF session.kind = "remote"
               THEN {BrowserbaseSession_switchToIframe(session, fault, selector, iframes,
                                                       queryOk) : fault \in EnsureFaults}
               ELSE {LocalPlaywrightSession_switchToIframe(session, selector, iframes,
                                                           queryOk)} :
         /\ session' = r.s
         /\ lastOp' = [op |-> "switchToIframe", kind |-> session.kind,
                       raised |-> r.raised, result |-> r.result, entered |-> r.entered,
                       by |-> r.by, selector |-> selector, iframes |-> iframes,
                       queryOk |-> queryOk, pageBefore |-> session.page,
                       connected |-> session.kind = "local" \/ r.s.cdpSession # "null"]
    /\ opCount' = opCount + 1
    /\ UNCHANGED <<closeLog, consoleLogs, engineVars, runVars>>

session_switchToMainFrame ==
    /\ session.kind # "none"
    /\ opCount < MaxIframeOps
    /\ \E r \in IF session.kind = "remote"
               THEN {BrowserbaseSession_switchToMainFrame(session, fault, pages) :
                       fault \in EnsureFaults, pages \in PagesOutcomes}
               ELSE {LocalPlaywrightSession_switchToMainFrame(session)} :
         /\ session' = r.s
         /\ lastOp' = [op |-> "switchToMainFrame", kind |-> session.kind,
                       raised |-> r.raised, warned |-> r.warned,
                       pageBefore |-> session.page]
    /\ opCount' = opCount + 1
    /\ UNCHANGED <<closeLog, consoleLogs, engineVars, runVars>>

session_evaluate ==
    /\ session.kind # "none"
    /\ opCount < MaxSessionOps
    /\ \E script \in ScriptOutcomes :
       \E r \in IF session.kind = "remote"
               THEN {BrowserbaseSession_evaluate(session, fault, script) :
                       fault \in EnsureFaults}
               ELSE {LocalPlaywrightSession_evaluate(session, script)} :
         /\ session' = r.s
         /\ lastOp' = [op |-> "evaluate", raised |-> r.raised, value |-> r.value,
                       script |-> script]
    /\ opCount' = opCount + 1
    /\ UNCHANGED <<closeLog, consoleLogs, engineVars, runVars>>

session_getConsoleLogs ==
    /\ session.kind # "none"
    /\ opCount < MaxSessionOps
    /\ \E r \in IF session.kind = "remote"
               THEN {BrowserbaseSession_getConsoleLogs(session, consoleLogs, fault, script) :
                       fault \in EnsureFaults, script \in {"value", "callFails"}}
               ELSE {LocalPlaywrightSession_getConsoleLogs(session, consoleLogs)} :
         /\ session' = r.s
         /\ consoleLogs' = [r.c EXCEPT !.returned = r.logs]
         /\ lastOp' = [op |-> "getConsoleLogs", raised |-> r.raised, logs |-> r.logs,
                       previous |-> consoleLogs.returned]
    /\ opCount' = opCount + 1
    /\ UNCHANGED <<closeLog, engineVars, runVars>>

session_clickAt ==
    /\ session.kind # "none"
    /\ opCount < MaxSessionOps
    /\ \E r \in IF session.kind = "remote"
               THEN {BrowserbaseSession_clickAt(session, fault, cdp, mouse) :
                       fault \in EnsureFaults, cdp \in ClickAtOutcomes,
                       mouse \in ClickAtOutcomes}
               ELSE {LocalPlaywrightSession_clickAt(session, mouse) :
                       mouse \in ClickAtOutcomes} :
         /\ session' = r.s
         /\ lastOp' = [op |-> "clickAt", raised |-> r.raised, result |-> r.result]
    /\ opCount' = opCount + 1
    /\ UNCHANGED <<closeLog, consoleLogs, engineVars, runVars>>

\* the page writes to its console
page_console ==
    /\ session.kind # "none"
    /\ consoleLogs.emitted < MaxLogs
    /\ \E event \in ConsoleEvents :
         consoleLogs' = consoleMessage(session.kind, event, consoleLogs)
    /\ UNCHANGED <<session, lastOp, closeLog, opCount, engineVars, runVars>>

(***************************************************************************)
(* Evaluator.evaluate.  `evaluation` holds the position of the call, its   *)
(* evidence (the number of screenshots with a file name, of those that     *)
(* could be loaded, and of console errors) and, at the end, the report.    *)
(***************************************************************************)
NoEvaluation == [pc |-> "idle"]

NoReport == [status |-> "", playability_score |-> 0, fallback |-> FALSE]

\* What the chat completion yields: the request fails, the text holds no
\* JSON object, or it holds one with a status ("": none) and possibly a
\* playability_score.
LlmScores == {-10, 0, 75, 130}

LlmResponses ==
    {[kind |-> "fails"], [kind |-> "unparsable"]}
    \cup {[kind |-> "json", status |-> st, scored |-> TRUE, score |-> n] :
            st \in {"", "pass"}, n \in LlmScores}
    \cup {[kind |-> "json", status |-> st, scored |-> FALSE, score |-> 0] :
            st \in {"", "pass"}}

\* parsed.playability_score || 50, clamped to 0..100
parseEvaluationResponse(response) ==
    IF response.kind = "unparsable"
    THEN [status |-> "partial", playability_score |-> 50, fallback |-> FALSE]
    ELSE [status |-> IF response.status = "" THEN "partial" ELSE response.status,
          playability_score |->
             Max(0, Min(100, IF ~response.scored \/ response.score = 0
                             THEN 50 ELSE response.score)),
          fallback |-> FALSE]

createFallbackReport(screenshots, consoleErrors) ==
    LET hasErrors == consoleErrors > 0
        hasScreenshots == screenshots > 0
    IN [status |-> IF hasErrors THEN "fail"
                   ELSE IF hasScreenshots THEN "partial" ELSE "error",
        playability_score |-> IF hasErrors THEN 20
                              ELSE IF hasScreenshots THEN 50 ELSE 0,
        fallback |-> TRUE]

\* catch (error) of evaluate: return this.createFallbackReport(...)
evaluate_fallback_rethrow(e) == [e EXCEPT !.pc = "raised"]

evaluate_fallback(e) ==
    [e EXCEPT !.pc = "returned",
              !.report = createFallbackReport(e.valid, e.consoleErrors)]

\* const screenshotBuffers = await this.loadScreenshots(validScreenshots)
evaluate_loadScreenshots ==
    /\ evaluation.pc = "called"
    /\ \E n \in 0..evaluation.valid :
         evaluation' = [evaluation EXCEPT !.pc = "loaded", !.loaded = n]
    /\ UNCHANGED <<engineVars, sessionVars, entry, env, runPc, runResult,
                   testRunning, currentTest, currentPhase, requests, pendingResets, calls>>

\* the try block of evaluate
evaluate_analyze ==
    /\ evaluation.pc = "loaded"
    /\ IF evaluation.loaded = 0
       THEN evaluation' = evaluate_fallback(evaluation)
       ELSE \E response \in LlmResponses :
              evaluation' =
                 IF response.kind = "fails"
                 THEN evaluate_fallback([evaluation EXCEPT !.llm = response])
                 ELSE [evaluation EXCEPT !.pc = "returned", !.llm = response,
                                         !.report = parseEvaluationResponse(response)]
    /\ UNCHANGED <<engineVars, sessionVars, entry, env, runPc, runResult,
                   testRunning, currentTest, currentPhase, requests, pendingResets, calls>>

\* the caller takes the report and calls evaluate again on new evidence
evaluate_call ==
    /\ evaluation.pc \in {"returned", "raised"}
    /\ \E v \in 0..MaxShots, c \in 0..MaxConsoleErrors :
         evaluation' = [pc |-> "called", valid |-> v, loaded |-> 0,
                        consoleErrors |-> c, llm |-> [kind |-> "none"], report |-> NoReport]
    /\ UNCHANGED <<engineVars, sessionVars, entry, env, runPc, runResult,
                   testRunning, currentTest, currentPhase, requests, pendingResets, calls>>

\* the next operation of the caller starts on the remote Session; a caller
\* starts one only when it awaits no earlier one
operation_begin ==
    /\ session.kind = "remote"
    /\ opCount < MaxSessionOps
    /\ unawaited(calls)
    /\ calls' = ensureCDPConnection_enter(session, calls)
    /\ lastOp' = [op |-> "operation", connected |-> alreadyConnected(session)]
    /\ opCount' = opCount + 1
    /\ UNCHANGED <<entry, env, evaluation, requests, pendingResets, runPc, runResult,
                   testRunning, currentTest, currentPhase, session, closeLog,
                   consoleLogs, engineVars>>

\* the executor's timeoutPromise rejects first: executeAction raises and
\* the operation goes on with nobody awaiting it
operation_abandoned ==
    /\ \E i \in 1..Len(calls) :
         /\ ~calls[i].abandoned
         /\ calls' = [calls EXCEPT ![i].abandoned = TRUE]
    /\ UNCHANGED <<entry, env, evaluation, requests, pendingResets, runPc, runResult,
                   testRunning, currentTest, currentPhase, sessionVars, engineVars>>

ensureCDPConnection_resumes ==
    /\ \E i \in 1..Len(calls) :
         \E r \in CASE calls[i].pc = "url" ->
                       {ensureCDPConnection_url(session, calls, i, o) : o \in UrlOutcomes}
                    [] calls[i].pc = "connect" ->
                       {ensureCDPConnection_connect(session, calls, i, f) : f \in ConnectFaults}
                    [] OTHER ->
                       {ensureCDPConnection_cdp(session, calls, i, ok) : ok \in BOOLEAN} :
           /\ session' = r.s
           /\ calls' = r.calls
    /\ UNCHANGED <<entry, env, evaluation, requests, pendingResets, runPc, runResult,
                   testRunning, currentTest, currentPhase, lastOp, closeLog, opCount,
                   consoleLogs, engineVars>>

EngineIdle ==
    /\ pc = "idle"
    /\ idx = 0
    /\ rep = 0
    /\ now = 0
    /\ startTime = 0
    /\ actionStart = 0
    /\ inflight = NoCall
    /\ error = ""
    /\ started = <<>>
    /\ callLog = <<>>
    /\ warnings = <<>>
    /\ detect = NoDetect

EngineInit ==
    /\ actions \in ActionLists
    /\ EngineIdle

\* no entry point is modelled: the caller is at its call of executeActions
NoRun ==
    /\ entry = "none"
    /\ env = [useLocal |-> FALSE, apiKey |-> TRUE]
    /\ runPc = "executeActions"
    /\ runResult = "none"
    /\ testRunning = FALSE
    /\ currentTest = FALSE
    /\ currentPhase = "idle"
    /\ requests = <<>>
    /\ calls = <<>>
    /\ pendingResets = 0

Init ==
    /\ EngineInit
    /\ session = NoSession
    /\ lastOp = NoOp
    /\ closeLog = <<>>
    /\ consoleLogs = NoConsole
    /\ evaluation = NoEvaluation
    /\ opCount = 0
    /\ NoRun

Next ==
    \/ executeActions_begin
    \/ executeActions_loop
    \/ executeAction_switch
    \/ executeAction_keypressLoop
    \/ session_settles
    \/ timeoutPromise_fires
    \/ executeAction_postCheck

Spec == Init /\ [][Next]_vars

(***************************************************************************)
(* SessionSpec: one session of either class, and any calls on it.          *)
(***************************************************************************)
SessionInit ==
    /\ actions = <<>>
    /\ EngineIdle
    /\ session \in NewSessions
    /\ lastOp = NoOp
    /\ closeLog = <<>>
    /\ consoleLogs = NoConsole
    /\ evaluation = NoEvaluation
    /\ opCount = 0
    /\ NoRun

SessionNext ==
    \/ session_navigate
    \/ session_screenshot
    \/ session_click
    \/ session_clickByText
    \/ session_close

SessionSpec == SessionInit /\ [][SessionNext]_vars

(***************************************************************************)
(* KeypressSpec: one session of either class and any keypress calls on it. *)
(***************************************************************************)
KeypressNext == session_keypress

KeypressSpec == SessionInit /\ [][KeypressNext]_vars

(***************************************************************************)
(* IframeSpec: one session of either class and any switchToIframe calls on *)
(* it.                                                                     *)
(***************************************************************************)
IframeNext == session_switchToIframe \/ session_switchToMainFrame

IframeSpec == SessionInit /\ [][IframeNext]_vars

(***************************************************************************)
(* PageSpec: one session of either class whose page writes to its console, *)
(* and any evaluate, getConsoleLogs, clickAt and navigate calls on it.     *)
(***************************************************************************)
PageNext ==
    \/ page_console
    \/ session_evaluate
    \/ session_getConsoleLogs
    \/ session_clickAt
    \/ session_navigate

PageSpec == SessionInit /\ [][PageNext]_vars

(***************************************************************************)
(* DetectSpec: one call of detectAndInteract on an engine with a session.  *)
(***************************************************************************)
DetectNext ==
    \/ detectAndInteract_begin
    \/ detectAndInteract_selectors
    \/ detectAndInteract_texts

DetectSpec == SessionInit /\ [][DetectNext]_vars

(***************************************************************************)
(* RunSpec: the entry points that obtain a session, run a test on it and   *)
(* close it: DashboardServer.runTestAsync, the Lambda handler and runTest  *)
(* of the automated test script.  The dashboard drives executeActions      *)
(* itself; the other two hand the session to QAAgent.testGame.  Calls into *)
(* collaborators (loadConfig, EvidenceCapture, Evaluator, QAAgent,         *)
(* writeFile) are taken to return: the failures modelled are those of the  *)
(* provider, of executeActions and of close().                             *)
(***************************************************************************)
EntryPoints == {"dashboard", "lambda", "runTest"}

RunActionLists == UNION {[1..n -> ActionConfig] : n \in 0..RunMaxActions}

\* What client.createSession comes back with: "ok" (a session with an id),
\* "null", an error response with status 429, 402 or another status
\* ("apiError"), a response without an id ("noId"), or it throws: a network
\* failure ("fetchFailed") or another SDK error ("sdkError").
CreateOutcomes ==
    {"ok", "null", "429", "402", "apiError", "noId", "fetchFailed", "sdkError"}

\* the message of the error raised inside the try of createSession
createSession_thrown(outcome) ==
    CASE outcome = "null" ->
           "Failed to create browser session: API returned null/undefined"
      [] outcome = "429" ->
           "Browserbase session limit exceeded: Too Many Requests. Please close any existing browser sessions or wait a few moments before retrying."
      [] outcome = "402" ->
           "Browserbase quota limit reached: Payment Required. Your free plan browser minutes have been exhausted."
      [] outcome = "apiError" ->
           "Browserbase API error (401): Unauthorized"
      [] outcome = "noId" ->
           "Failed to create browser session: No session ID found."
      [] outcome = "fetchFailed" -> "fetch failed"
      [] OTHER -> "Unauthorized"

isNetworkError(errorMessage) ==
    \/ includes(errorMessage, "fetch failed")
    \/ includes(errorMessage, "timeout")
    \/ includes(errorMessage, "UND_ERR_CONNECT_TIMEOUT")
    \/ includes(errorMessage, "ECONNREFUSED")

\* catch (error) of createSession: every error of the try is wrapped again
createSession_catch(errorMessage) ==
    IF isNetworkError(errorMessage)
    THEN "Network error connecting to Browserbase: " \o errorMessage
           \o " This is likely a temporary network issue. Please: Wait a few moments and try again"
    ELSE "Failed to create browser session: " \o errorMessage
           \o " Please verify: 1. BROWSERBASE_API_KEY is set correctly in .env 2. Your Browserbase account is active 3. You have available browser hours/quota"

BrowserbaseProvider_createSession(outcome) ==
    IF outcome = "ok"
    THEN [raised |-> FALSE, message |-> ""]
    ELSE [raised |-> TRUE, message |-> createSession_catch(createSession_thrown(outcome))]

\* the test of runTest's catch around createSession
quotaLimitReached(message) ==
    \/ includes(message, "402")
    \/ includes(message, "quota")
    \/ includes(message, "Payment Required")

\* BrowserbaseProvider.createSession is called at all
remoteTried(e, v) == v.apiKey /\ (e = "dashboard" \/ ~v.useLocal)

\* the backend of the session the entry point ends up with ("none": it has
\* no session and is in its catch)
obtainedBackend(e, v, remote, localOk) ==
    LET local == IF localOk THEN "local" ELSE "none" IN
    CASE e = "dashboard" ->
           \* new BrowserbaseProvider() throws without an API key
           IF v.apiKey /\ ~remote.raised THEN "remote" ELSE "none"
      [] e = "lambda" ->
           IF v.useLocal \/ ~v.apiKey THEN local
           ELSE IF ~remote.raised THEN "remote" ELSE "none"
      [] OTHER ->
           IF v.useLocal \/ ~v.apiKey THEN local
           ELSE IF ~remote.raised THEN "remote"
           ELSE IF quotaLimitReached(remote.message) THEN local ELSE "none"

run_begin ==
    /\ runPc = "idle"
    /\ runPc' = "createSession"
    /\ requests' = Append(requests, "started")
    /\ IF entry = "dashboard"
       THEN /\ ~testRunning
            /\ testRunning' = TRUE
            /\ currentTest' = TRUE
            /\ currentPhase' = "load"
       ELSE UNCHANGED <<testRunning, currentTest, currentPhase>>
    /\ UNCHANGED <<calls, entry, env, evaluation, pendingResets, runResult, engineVars, sessionVars>>

run_createSession ==
    /\ runPc = "createSession"
    /\ \E localOk \in BOOLEAN, u \in BOOLEAN, c \in BOOLEAN :
       \E outcome \in IF remoteTried(entry, env) THEN CreateOutcomes ELSE {"ok"} :
         LET remote == BrowserbaseProvider_createSession(outcome)
             got == obtainedBackend(entry, env, remote, localOk)
         IN
         /\ lastOp' = [op |-> "createSession",
                       outcome |-> IF remoteTried(entry, env) THEN outcome ELSE "untried",
                       localOk |-> localOk, backend |-> got]
         /\ session' = CASE got = "remote" -> BrowserbaseSession(u)
                         [] got = "local" -> LocalPlaywrightSession(c)
                         [] OTHER -> NoSession
         /\ runPc' = IF got = "none" THEN "catch"
                     ELSE IF entry = "dashboard" THEN "navigate" ELSE "testGame"
    /\ UNCHANGED <<calls, entry, env, evaluation, requests, pendingResets, runResult, testRunning, currentTest, currentPhase,
                   closeLog, opCount, consoleLogs, engineVars>>

\* await session.navigate(gameUrl)
run_navigate ==
    /\ runPc = "navigate"
    /\ \E fault \in EnsureFaults, goto \in GotoOutcomes, sdkOk \in BOOLEAN :
         LET r == IF session.kind = "remote"
                  THEN BrowserbaseSession_navigate(session, fault, goto, sdkOk)
                  ELSE LocalPlaywrightSession_navigate(session, goto)
         IN /\ session' = r.s
            /\ lastOp' = [op |-> "navigate", raised |-> r.raised, tier |-> r.tier,
                          settle |-> r.settle, goto |-> goto,
                          connected |-> session.kind = "local" \/ r.s.cdpSession # "null"]
            /\ runPc' = IF r.raised THEN "catch" ELSE "capture"
            /\ currentPhase' = IF r.raised THEN currentPhase ELSE "capture"
    /\ opCount' = opCount + 1
    /\ UNCHANGED <<calls, entry, env, evaluation, requests, pendingResets, runResult, testRunning, currentTest, closeLog,
                   consoleLogs, engineVars>>

\* evidence capture of the initial load, then detectAndInteract inside its
\* own try/catch
run_capture ==
    /\ runPc = "capture"
    /\ currentPhase' = "interact"
    /\ runPc' = "executeActions"
    /\ UNCHANGED <<calls, entry, env, evaluation, requests, pendingResets, runResult, testRunning, currentTest, engineVars,
                   sessionVars>>

\* executeActions returned: final evidence, console logs, then the analysis
run_actionsReturned ==
    /\ runPc = "executeActions"
    /\ pc = "returned"
    /\ currentPhase' = "analyze"
    /\ runPc' = IF currentTest THEN "report" ELSE "catch"
    /\ UNCHANGED <<calls, entry, env, evaluation, requests, pendingResets, runResult, testRunning, currentTest, engineVars,
                   sessionVars>>

\* executeActions rejected: control goes to the catch of runTestAsync
run_actionsRaised ==
    /\ runPc = "executeActions"
    /\ pc = "raised"
    /\ runPc' = "catch"
    /\ UNCHANGED <<calls, entry, env, evaluation, requests, pendingResets, runResult, testRunning, currentTest, currentPhase,
                   engineVars, sessionVars>>

run_report ==
    /\ runPc = "report"
    /\ currentPhase' = "report"
    /\ runPc' = "close"
    /\ UNCHANGED <<calls, entry, env, evaluation, requests, pendingResets, runResult, testRunning, currentTest, engineVars,
                   sessionVars>>

\* const report = await agent.testGame(url)
run_testGame ==
    /\ runPc = "testGame"
    /\ runPc' = "close"
    /\ UNCHANGED <<calls, entry, env, evaluation, requests, pendingResets, runResult, testRunning, currentTest, currentPhase,
                   engineVars, sessionVars>>

\* await session.close()
run_close ==
    /\ runPc = "close"
    /\ \E o \in CloseOutcomes :
         LET r == IF session.kind = "remote"
                  THEN BrowserbaseSession_close(session, o)
                  ELSE LocalPlaywrightSession_close(session, o)
         IN /\ session' = r.s
            /\ lastOp' = [op |-> "close", raised |-> r.raised, released |-> r.released,
                          outcome |-> o]
            /\ closeLog' = Append(closeLog, [raised |-> r.raised, released |-> r.released,
                                              freed |-> r.freed])
            /\ runPc' = IF r.raised THEN "catch"
                        ELSE IF entry = "dashboard" THEN "finally" ELSE "done"
            /\ currentPhase' = IF entry = "dashboard" /\ ~r.raised
                               THEN "complete" ELSE currentPhase
            /\ runResult' = IF entry # "dashboard" /\ ~r.raised THEN "ok" ELSE runResult
    /\ opCount' = opCount + 1
    /\ UNCHANGED <<calls, entry, env, evaluation, requests, pendingResets, testRunning, currentTest, consoleLogs, engineVars>>

\* catch (error): the dashboard shows the error phase and rethrows, the
\* Lambda handler answers 500, runTest returns a failed TestResult
run_catch ==
    /\ runPc = "catch"
    /\ runResult' = "error"
    /\ IF entry = "dashboard"
       THEN currentPhase' = "error" /\ runPc' = "finally"
       ELSE currentPhase' = currentPhase /\ runPc' = "done"
    /\ UNCHANGED <<calls, entry, env, evaluation, requests, pendingResets, testRunning, currentTest, engineVars, sessionVars>>

\* finally { this.testRunning = false; setTimeout(reset, 2000) }
run_finally ==
    /\ runPc = "finally"
    /\ testRunning' = FALSE
    /\ pendingResets' = pendingResets + 1
    /\ runResult' = IF runResult = "none" THEN "ok" ELSE runResult
    /\ runPc' = "done"
    /\ UNCHANGED <<calls, entry, env, evaluation, requests, currentTest, currentPhase, engineVars,
                   sessionVars>>

\* a reset scheduled by a finally block fires, 2 s after that run ended
run_reset ==
    /\ pendingResets > 0
    /\ pendingResets' = pendingResets - 1
    /\ currentPhase' = "idle"
    /\ currentTest' = FALSE
    /\ UNCHANGED <<calls, entry, env, evaluation, requests, runPc, runResult, testRunning, engineVars,
                   sessionVars>>

\* if (this.testRunning) throw new Error('A test is already running')
alreadyRunning_never == FALSE

alreadyRunning == testRunning

\* POST /api/test: runTestAsync(gameUrl) is called and rejects at once when
\* a test is running; otherwise a run starts, with a session and an engine
\* of its own
dashboard_postTest ==
    /\ entry = "dashboard"
    /\ runPc # "idle"
    /\ Len(requests) < MaxRuns
    /\ requests' = Append(requests, IF alreadyRunning THEN "refused" ELSE "started")
    /\ IF alreadyRunning
       THEN UNCHANGED <<runPc, runResult, testRunning, currentTest, currentPhase,
                        pc, idx, rep, now, startTime, actionStart, inflight, error,
                        started, callLog, warnings, detect, session, lastOp,
                        closeLog, opCount, consoleLogs>>
       ELSE /\ testRunning' = TRUE
            /\ currentTest' = TRUE
            /\ currentPhase' = "load"
            /\ runPc' = "createSession"
            /\ runResult' = "none"
            /\ pc' = "idle" /\ idx' = 0 /\ rep' = 0 /\ now' = 0
            /\ startTime' = 0 /\ actionStart' = 0 /\ inflight' = NoCall
            /\ error' = "" /\ started' = <<>> /\ callLog' = <<>>
            /\ warnings' = <<>> /\ detect' = NoDetect
            /\ session' = NoSession
            /\ lastOp' = NoOp
            /\ closeLog' = <<>>
            /\ opCount' = 0
            /\ consoleLogs' = NoConsole
    /\ UNCHANGED <<calls, entry, env, evaluation, actions, pendingResets>>

RunInit ==
    /\ entry \in EntryPoints
    /\ env \in [useLocal : BOOLEAN, apiKey : BOOLEAN]
    /\ actions \in (IF entry = "dashboard" THEN RunActionLists ELSE {<<>>})
    /\ EngineIdle
    /\ session = NoSession
    /\ lastOp = NoOp
    /\ closeLog = <<>>
    /\ consoleLogs = NoConsole
    /\ evaluation = NoEvaluation
    /\ opCount = 0
    /\ runPc = "idle"
    /\ runResult = "none"
    /\ testRunning = FALSE
    /\ currentTest = FALSE
    /\ currentPhase = "idle"
    /\ requests = <<>>
    /\ calls = <<>>
    /\ pendingResets = 0

RunNext ==
    \/ run_begin
    \/ run_createSession
    \/ run_navigate
    \/ run_capture
    \/ executeActions_begin
    \/ executeActions_loop
    \/ executeAction_switch
    \/ executeAction_keypressLoop
    \/ session_settles
    \/ timeoutPromise_fires
    \/ executeAction_postCheck
    \/ run_actionsReturned
    \/ run_actionsRaised
    \/ run_report
    \/ run_testGame
    \/ run_close
    \/ run_catch
    \/ run_finally
    \/ run_reset

RunSpec == RunInit /\ [][RunNext]_vars

(***************************************************************************)
(* ConnectSpec: a remote Session whose operations may be abandoned by the  *)
(* executor's timer while they bring the CDP connection up, followed by    *)
(* further operations or close().                                          *)
(***************************************************************************)
ConnectInit ==
    /\ SessionInit
    /\ session.kind = "remote"

ConnectNext ==
    \/ operation_begin
    \/ operation_abandoned
    \/ ensureCDPConnection_resumes
    \/ session_close

ConnectSpec == ConnectInit /\ [][ConnectNext]_vars

(***************************************************************************)
(* EvaluatorSpec: calls of Evaluator.evaluate on any evidence.             *)
(***************************************************************************)
EvaluatorInit ==
    /\ actions = <<>>
    /\ EngineIdle
    /\ session = NoSession
    /\ lastOp = NoOp
    /\ closeLog = <<>>
    /\ consoleLogs = NoConsole
    /\ opCount = 0
    /\ NoRun
    /\ \E v \in 0..MaxShots, c \in 0..MaxConsoleErrors :
         evaluation = [pc |-> "called", valid |-> v, loaded |-> 0,
                       consoleErrors |-> c, llm |-> [kind |-> "none"], report |-> NoReport]

EvaluatorNext ==
    \/ evaluate_loadScreenshots
    \/ evaluate_analyze
    \/ evaluate_call

EvaluatorSpec == EvaluatorInit /\ [][EvaluatorNext]_vars

(***************************************************************************)
(* DashboardSpec: the dashboard server, its test runs one after the other, *)
(* further POST /api/test requests at any time, and the reset timers.      *)
(***************************************************************************)
DashboardInit ==
    /\ RunInit
    /\ entry = "dashboard"

DashboardNext ==
    \/ run_begin
    \/ dashboard_postTest
    \/ run_createSession
    \/ run_navigate
    \/ run_capture
    \/ executeActions_begin
    \/ executeActions_loop
    \/ executeAction_switch
    \/ executeAction_keypressLoop
    \/ session_settles
    \/ timeoutPromise_fires
    \/ executeAction_postCheck
    \/ run_actionsReturned
    \/ run_actionsRaised
    \/ run_report
    \/ run_close
    \/ run_catch
    \/ run_finally
    \/ run_reset

DashboardSpec == DashboardInit /\ [][DashboardNext]_vars

(***************************************************************************)
(* DashboardRequestsSpec: a dashboard server that has its Browserbase API  *)
(* key and a game configuration of exactly one action, with further        *)
(* POST /api/test requests at any time.                                    *)
(***************************************************************************)
DashboardRequestsInit ==
    /\ DashboardInit
    /\ env.apiKey
    /\ ~env.useLocal
    /\ Len(actions) = 1

DashboardRequestsSpec == DashboardRequestsInit /\ [][DashboardNext]_vars

(***************************************************************************)
(* DashboardRunSpec: one test run of a dashboard server that has its       *)
(* Browserbase API key.                                                    *)
(***************************************************************************)
DashboardRunInit ==
    /\ DashboardInit
    /\ env.apiKey
    /\ ~env.useLocal

DashboardRunNext ==
    \/ run_begin
    \/ run_createSession
    \/ run_navigate
    \/ run_capture
    \/ executeActions_begin
    \/ executeActions_loop
    \/ executeAction_switch
    \/ executeAction_keypressLoop
    \/ session_settles
    \/ timeoutPromise_fires
    \/ executeAction_postCheck
    \/ run_actionsReturned
    \/ run_actionsRaised
    \/ run_report
    \/ run_close
    \/ run_catch
    \/ run_finally
    \/ run_reset

DashboardRunSpec == DashboardRunInit /\ [][DashboardRunNext]_vars

(***************************************************************************)
(* Properties of executeActions                                            *)
(***************************************************************************)
terminated == pc \in {"returned", "raised"}

elapsed == now - startTime

\* C1: from the start of executeActions until it returns or raises, no more
\* than timeouts.total plus one timeouts.action of wall-clock time passes.
C1_TotalTimeBounded ==
    pc # "idle" => elapsed <= TimeoutTotal + TimeoutAction

\* C2: before each action the elapsed time is compared with timeouts.total.
\* If more than timeouts.total has passed, executeActions rejects with the
\* total-timeout error and calls no session method for that action or a
\* later one; otherwise the action is started.
C2_TotalTimeoutBeforeEachAction ==
    [][(pc = "loop" /\ idx <= Len(actions)) =>
         IF now - startTime > TimeoutTotal
         THEN /\ pc' = "raised"
              /\ error' = MsgTotalTimeout
              /\ callLog' = callLog
              /\ started' = started
         ELSE /\ pc' = "switch"
              /\ started' = Append(started, idx)]_vars

C2_Witness ==
    /\ pc = "raised"
    /\ error = MsgTotalTimeout
    /\ idx <= Len(actions)
    /\ callLog # <<>>
    /\ \A i \in 1..Len(callLog) : callLog[i].action < idx

\* C3: a session call that rejects with a non-timeout error is caught and
\* logged, and the sequence goes on with the next action; such an error is
\* never what executeActions rejects with, and when executeActions returns
\* every action has been executed exactly once, in order.
nonTimeoutRejection(c) ==
    /\ c.result \in SessionErrors
    /\ ~includes(c.result, "timeout")

C3_ActionErrorSkipsStep ==
    /\ \A i \in 1..Len(callLog) :
         nonTimeoutRejection(callLog[i]) =>
           /\ \E w \in 1..Len(warnings) :
                warnings[w] = [action |-> callLog[i].action, message |-> callLog[i].result]
           /\ idx > callLog[i].action
           /\ pc = "raised" => error # callLog[i].result
    /\ pc = "raised" => includes(error, "timeout")
    /\ pc = "returned" => started = [k \in 1..Len(actions) |-> k]
    /\ \A j, k \in 1..Len(started) : j < k => started[j] < started[k]

C3_Witness ==
    /\ pc = "returned"
    /\ Len(actions) = 2
    /\ Len(callLog) = 2
    /\ callLog[1] = [action |-> 1, op |-> "click", result |-> "element not found"]
    /\ callLog[2] = [action |-> 2, op |-> "keypress", result |-> "ok"]

\* C4: a click action without a selector makes executeActions reject with a
\* configuration error, and no later action runs.
clickWithoutSelector(k) ==
    actions[k].type = "click" /\ ~actions[k].selector

C4_ClickWithoutSelectorIsFatal ==
    \A j \in 1..Len(started) :
      LET k == started[j] IN
        (clickWithoutSelector(k) /\ ~(idx = k /\ pc = "switch")) =>
          /\ pc = "raised"
          /\ error = MsgClickSelector
          /\ idx = k

\* C5: every awaited session call of every action type is raced against the
\* per-action timer, so executeActions is never left waiting for a call
\* that does not settle: it has returned or raised, or can take a step.
C5_EveryActionRacedAndTerminates ==
    /\ pc = "await" => inflight.raced
    /\ terminated \/ ENABLED Next

\* C14: a keypress action with repeat N calls session.keypress exactly N
\* times, one call after the other, for every N; without repeat it calls it
\* once.
keypressCalls(k) ==
    {i \in 1..Len(callLog) : callLog[i].action = k /\ callLog[i].op = "keypress"}

ranToItsEnd(k) ==
    /\ k < idx
    /\ \A w \in 1..Len(warnings) : warnings[w].action # k

C14_KeypressCallsEqualRepeat ==
    /\ \A i \in 1..(Len(callLog) - 1) : callLog[i].result # "pending"
    /\ \A j \in 1..Len(started) :
         LET k == started[j] IN
           (actions[k].type = "keypress" /\ actions[k].key /\ ranToItsEnd(k)) =>
             Cardinality(keypressCalls(k)) =
               IF actions[k].repeat = Absent THEN 1 ELSE actions[k].repeat

\* C15: actions are executed in the order of the list, each at most once,
\* and an action starts only when every call of the earlier actions has
\* settled (the earlier action finished or was skipped).
C15_ActionsInListOrder ==
    /\ Len(started) <= Len(actions)
    /\ \A j \in 1..Len(started) : started[j] = j
    /\ \A i, j \in 1..Len(callLog) : i < j => callLog[i].action <= callLog[j].action
    /\ \A i \in 1..Len(callLog) :
         (started # <<>> /\ callLog[i].action < started[Len(started)]) =>
           callLog[i].result \notin {"pending", "abandoned"}

C15_Witness ==
    /\ pc = "returned"
    /\ started = <<1, 2>>
    /\ Len(warnings) = 1
    /\ warnings[1].action = 1
    /\ \E i \in 1..Len(callLog) : callLog[i].action = 2 /\ callLog[i].result = "ok"

(***************************************************************************)
(* Properties of the sessions                                              *)
(***************************************************************************)
\* C6: in every run of an entry point that obtained a session, close() is
\* called on that session exactly once before the run ends, on the success
\* path and on every failure path.
C6_SessionClosedExactlyOnce ==
    /\ Len(closeLog) <= 1
    /\ (runPc = "done" /\ session.kind # "none") => Len(closeLog) = 1

\* C7: a second close() on the same session (remote or local) does not
\* raise and makes no backend release call again (CDP detach, browser
\* close, context close, remote completeSession).
freedBefore(k) == UNION {closeLog[j].freed : j \in 1..(k - 1)}

C7_SecondCloseIsNoOp ==
    \A k \in 2..Len(closeLog) :
      (\A j \in 1..(k - 1) : ~closeLog[j].raised) =>
        /\ ~closeLog[k].raised
        /\ closeLog[k].released \cap freedBefore(k) = {}

\* C8: after close() returns on a remote session every backend resource is
\* released (CDP session detached, browser connection closed, the stored
\* page/browser/CDP handles cleared, remote session completed), also when
\* one of the release calls raised.
C8_CloseReleasesEverything ==
    (session.kind = "remote" /\ lastOp.op = "close" /\ ~lastOp.raised) =>
      /\ ~session.attached
      /\ session.connOpen = 0
      /\ session.browser = "null"
      /\ session.page = "null"
      /\ session.cdpSession = "null"
      /\ session.completed

\* C9: navigate(url) never raises to its caller, in either backend, whatever
\* fails underneath; it returns after a settle wait.
C9_NavigateNeverRaises ==
    lastOp.op = "navigate" =>
      /\ ~lastOp.raised
      /\ lastOp.settle \in {2000, 3000}

C9_Witness ==
    /\ lastOp.op = "navigate"
    /\ session.kind = "remote"
    /\ ~lastOp.connected
    /\ ~lastOp.raised
    /\ lastOp.settle = 3000

\* C10: when the capture step of screenshot() fails or yields no data,
\* screenshot() raises and returns no buffer: whatever it returns is the
\* captured image.  A failure of the repaint/settle step alone does not
\* make screenshot() fail.
C10_FailedCaptureRaises ==
    lastOp.op = "screenshot" =>
      /\ lastOp.status = "returned" =>
           (lastOp.buffer = "png" /\ lastOp.capture = "data")
      /\ (lastOp.capture \in {"raise", "nodata"} /\ lastOp.status # "hung") =>
           (lastOp.status = "raised" /\ lastOp.buffer = "none")
      /\ (lastOp.connected /\ lastOp.repaint = "raise" /\ lastOp.capture = "data") =>
           lastOp.status = "returned"

C10_Witness ==
    /\ lastOp.op = "screenshot"
    /\ lastOp.connected
    /\ lastOp.repaint = "raise"
    /\ lastOp.capture = "nodata"
    /\ lastOp.status = "raised"

\* C11: click(selector) on the remote session attempts its tiers in the order
\* native click, CDP mouse press/release, in-page DOM click; a tier is
\* attempted only after every earlier one failed, the first success ends the
\* chain, and when all fail the failure is logged and click returns without
\* raising.
C11_ClickTierChain ==
    (lastOp.op = "click" /\ lastOp.kind = "remote") =>
      LET t == lastOp.tiers
          n == Len(lastOp.tiers)
      IN /\ ~lastOp.raised
         /\ n <= Len(ClickTierOrder)
         /\ \A i \in 1..n : t[i].tier = ClickTierOrder[i]
         /\ \A i \in 1..(n - 1) : ~t[i].ok
         /\ (n \in 1..(Len(ClickTierOrder) - 1)) => t[n].ok
         /\ (\A i \in 1..n : ~t[i].ok) => lastOp.logged
         /\ (n > 0 /\ t[n].ok) => ~lastOp.logged
         /\ lastOp.mouse # <<>> => (n >= 2 /\ t[2].tier = "cdp")
         /\ (n >= 2 /\ t[2].ok) => lastOp.mouse = <<"mousePressed", "mouseReleased">>

C11_Witness ==
    /\ lastOp.op = "click"
    /\ lastOp.kind = "remote"
    /\ Len(lastOp.tiers) = 3
    /\ \A i \in 1..3 : ~lastOp.tiers[i].ok
    /\ lastOp.logged
    /\ ~lastOp.raised

\* C12: clickByText never raises in either backend; it returns true exactly
\* when some strategy found and clicked a match, and false when none matched
\* or an internal step (connection bring-up included) failed.
C12_ClickByTextReturnsFlag ==
    lastOp.op = "clickByText" =>
      /\ ~lastOp.raised
      /\ lastOp.result <=> lastOp.clickedBy # 0
      /\ lastOp.caught => ~lastOp.result
      /\ ~lastOp.connected => ~lastOp.result

C12_Witness ==
    /\ lastOp.op = "clickByText"
    /\ lastOp.kind = "remote"
    /\ ~lastOp.connected
    /\ lastOp.caught
    /\ ~lastOp.raised
    /\ ~lastOp.result

\* C13: a keypress action with repeat 3, each of whose three keypress calls
\* is served by the CDP path or by the keyboard fallback, delivers exactly 3
\* key-down and 3 key-up events to the page.
C13_ThreeRepeatsThreePairs ==
    (session.kind = "remote" /\ session.keys.calls = 3 /\ session.keys.served = 3) =>
      /\ session.keys.downs = 3
      /\ session.keys.ups = 3

\* C16: keypress(key) on the remote session focuses the page before any key
\* event, delivers the key as CDP keyDown then keyUp, uses the keyboard path
\* only when the CDP path raised, waits the settle delay on every path and
\* never raises.
C16_RemoteKeypress ==
    (lastOp.op = "keypress" /\ lastOp.kind = "remote") =>
      LET ev == lastOp.events IN
      /\ ~lastOp.raised
      /\ lastOp.settle = 100
      /\ ev # <<>> => lastOp.focused
      /\ lastOp.path = "cdp" =>
            ev = <<keyEvent("keyDown", "cdp"), keyEvent("keyUp", "cdp")>>
      /\ (\E i \in 1..Len(ev) : ev[i].via = "keyboard") => lastOp.cdp # "ok"
      /\ lastOp.path = "keyboard" => lastOp.cdp # "ok"

C16_Witness ==
    /\ lastOp.op = "keypress"
    /\ lastOp.kind = "remote"
    /\ lastOp.path = "keyboard"
    /\ lastOp.cdp = "downRaises"
    /\ ~lastOp.raised
    /\ lastOp.settle = 100

\* C17: navigate applies three tiers in order in both backends: the
\* content-loaded wait; only if it fails the commit wait; only if that fails
\* the navigation without wait condition.  The call ends at the first tier
\* that succeeds and makes at most three attempts.
C17_NavigateThreeTiers ==
    (lastOp.op = "navigate" /\ lastOp.connected) =>
      /\ lastOp.tier <= 3
      /\ lastOp.tier = CASE lastOp.goto = "loaded" -> 1
                         [] lastOp.goto = "committed" -> 2
                         [] OTHER -> 3

\* C18: in both backends a capture call that never returns makes
\* screenshot() raise (after the capture timeout) instead of hanging.
C18_CaptureIsTimeBounded ==
    (lastOp.op = "screenshot" /\ lastOp.connected /\ lastOp.repaint # "hang"
       /\ lastOp.capture = "hang") =>
      lastOp.status = "raised"

\* C19: when the repaint script runs, the settle wait before the capture is
\* at least min(longest animation duration, cap) and at most the cap of
\* 500 ms, in both backends.
SettleCap == 500

longest(anims) == IF anims = {} THEN 0 ELSE CHOOSE d \in anims : \A x \in anims : x <= d

C19_SettleWaitCapped ==
    (lastOp.op = "screenshot" /\ lastOp.repaint = "ok" /\ lastOp.status = "returned") =>
      /\ lastOp.settle >= Min(longest(lastOp.anims), SettleCap)
      /\ lastOp.settle <= SettleCap

\* C20: switchToIframe() without a selector enters the iframe with the
\* largest bounding-box area among those whose area exceeds 400 x 400 px and
\* returns true; with no iframe, or none above the threshold, it returns
\* false and stays on the current document; it never raises.  With an
\* 800 x 600 and a 100 x 100 iframe it enters the 800 x 600 one.
iframeArea(b) == b.w * b.h

qualifying(iframes) ==
    {i \in 1..Len(iframes) : iframes[i].visible /\ iframeArea(iframes[i]) > 160000}

targetsInOrder == commonSelectors \o textButtons

C21_DetectClicksFirstMatch ==
    LET n == Len(detect.evaluated) IN
    /\ detect.pc \in {"idle", "css", "text", "returned"}
    /\ n <= Len(targetsInOrder)
    /\ detect.evaluated = SubSeq(targetsInOrder, 1, n)
    /\ detect.matched <= 1 /\ detect.clicksOk <= detect.matched
    /\ detect.matched = 1 =>
         /\ detect.pc = "returned"
         /\ detect.clicked = detect.evaluated[n]
    /\ detect.pc = "text" => detect.matched = 0
    /\ (detect.pc = "returned" /\ detect.matched = 0) =>
         n = Len(targetsInOrder)

C21_Witness ==
    /\ detect.pc = "returned"
    /\ detect.matched = 0
    /\ detect.evaluateFailed > 0
    /\ Len(detect.evaluated) = Len(targetsInOrder)
\* C22: for every operation and backend outcome the remote and the local
\* session give the caller the same kind of outcome; in particular
\* evaluate(script) on a script that throws (or whose call fails) either
\* raises in both or returns in both.
evaluateRaises(kind, script) ==
    IF kind = "remote"
    THEN BrowserbaseSession_evaluate(BrowserbaseSession(TRUE), "none", script).raised
    ELSE LocalPlaywrightSession_evaluate(LocalPlaywrightSession(TRUE), script).raised

C22_EvaluateSameOutcomeKind ==
    lastOp.op = "evaluate" =>
      \A kind \in {"remote", "local"} :
         lastOp.raised = evaluateRaises(kind, lastOp.script)

\* C23: once a remote session has its CDP connection, every later operation
\* before close (navigate, screenshot, click, clickByText, keypress,
\* evaluate, getConsoleLogs, switchToIframe, clickAt), whatever it meets,
\* keeps the stored browser and CDP session, keeps a page, and opens no
\* further connection.
afterAnyOperation(s, c) ==
    {BrowserbaseSession_navigate(s, fault, goto, sdkOk).s :
        fault \in EnsureFaults, goto \in GotoOutcomes, sdkOk \in BOOLEAN}
    \cup {BrowserbaseSession_screenshot(s, fault, repaint, anims, capture).s :
        fault \in EnsureFaults, repaint \in RepaintOutcomes, anims \in AnimationSets,
        capture \in CaptureOutcomes("remote")}
    \cup {BrowserbaseSession_click(s, fault, focusOk, native, cdp, dom).s :
        fault \in EnsureFaults, focusOk \in BOOLEAN, native \in BOOLEAN,
        cdp \in ClickCdpOutcomes, dom \in ClickDomOutcomes}
    \cup {BrowserbaseSession_clickByText(s, fault, found, fallback).s :
        fault \in EnsureFaults, found \in [LocatorStrategies -> BOOLEAN],
        fallback \in FallbackOutcomes}
    \cup {BrowserbaseSession_keypress(s, fault, focusOk, cdp, kb).s :
        fault \in EnsureFaults, focusOk \in BOOLEAN, cdp \in KeyPathOutcomes,
        kb \in KeyPathOutcomes}
    \cup {BrowserbaseSession_evaluate(s, fault, script).s :
        fault \in EnsureFaults, script \in ScriptOutcomes}
    \cup {BrowserbaseSession_getConsoleLogs(s, c, fault, script).s :
        fault \in EnsureFaults, script \in ScriptOutcomes}
    \cup {BrowserbaseSession_switchToIframe(s, fault, selector, iframes, queryOk).s :
        fault \in EnsureFaults, selector \in SelectorOutcomes, iframes \in IframeLists,
        queryOk \in BOOLEAN}
    \cup {BrowserbaseSession_clickAt(s, fault, cdp, mouse).s :
        fault \in EnsureFaults, cdp \in ClickAtOutcomes, mouse \in ClickAtOutcomes}

C23_ConnectedSessionNeverReconnects ==
    (session.kind = "remote" /\ session.page # "null" /\ session.cdpSession # "null") =>
      \A t \in afterAnyOperation(session, consoleLogs) :
         /\ t.connOpen = session.connOpen
         /\ t.browser = session.browser
         /\ t.cdpSession = session.cdpSession
         /\ t.page # "null"

\* an evaluate that ran on the connection an earlier getConsoleLogs had used
C23_Witness ==
    /\ session.kind = "remote"
    /\ consoleLogs.hooked
    /\ lastOp.op = "evaluate" /\ lastOp.value = "result"
    /\ session.connOpen = 1

\* C24: a provisioning failure tells the caller its class: capacity or
\* network (retry later), auth/config or quota (fall back), unrecoverable;
\* the caller's fallback test does not treat two classes alike: a rate-limit
\* (429) or network failure never makes runTest fall back to the local
\* browser as a reached quota does.
retryLater(outcome) == outcome \in {"429", "fetchFailed"}

C24_RetryLaterIsNotQuota ==
    (lastOp.op = "createSession" /\ entry = "runTest" /\ retryLater(lastOp.outcome)) =>
      lastOp.backend = "none"

\* C25: every entry point switches to the local provider when no
\* Browserbase API key is provided, when createSession meets the quota
\* limit (402), or when USE_LOCAL_BROWSER=true, and then proceeds with a
\* local session (the local browser being able to start).
C25_EveryEntryPointFallsBack ==
    (/\ lastOp.op = "createSession"
     /\ lastOp.localOk
     /\ (env.useLocal \/ ~env.apiKey \/ lastOp.outcome = "402")) =>
      lastOp.backend = "local"

\* C26: the console-log buffer of a session is append-only: each
\* getConsoleLogs() result has the previous result as a prefix, whatever
\* operations (navigate included) were made in between.
isPrefix(p, q) == Len(p) <= Len(q) /\ SubSeq(q, 1, Len(p)) = p

C26_ConsoleLogsAppendOnly ==
    lastOp.op = "getConsoleLogs" => isPrefix(lastOp.previous, lastOp.logs)

\* C27: during a test run no two session operations are in flight at once:
\* while a call made by the executor has not settled, or was abandoned
\* because the per-action timer won its race, no further call is made on
\* the session, neither by the executor nor by the run (close included).
callInFlight ==
    \E i \in 1..Len(callLog) : callLog[i].result \in {"pending", "abandoned"}

C27_OneOperationInFlight ==
    [][callInFlight =>
         /\ Len(callLog') = Len(callLog)
         /\ opCount' = opCount
         /\ closeLog' = closeLog]_vars

\* a run that ended after the timer had won against a call
C27_Witness ==
    /\ entry = "dashboard"
    /\ runPc = "done"
    /\ Len(callLog) > 0
    /\ callLog[Len(callLog)].result = "abandoned"

\* C28: a screenshot action makes no screenshot, click or keypress call: its
\* only call on the session is one wait, it leaves the list and the error
\* of the executor alone, and once the wait is over the sequence goes on
\* with the next action.
callsOf(k) == {i \in 1..Len(callLog) : callLog[i].action = k}

C28_ScreenshotActionOnlyWaits ==
    \A k \in 1..Len(actions) :
       actions[k].type = "screenshot" =>
         /\ Cardinality(callsOf(k)) <= 1
         /\ \A i \in callsOf(k) :
              /\ callLog[i].op = "wait"
              /\ callLog[i].result = "ok" => (idx > k \/ (idx = k /\ pc = "post"))

C28_Witness ==
    /\ Len(actions) = 2
    /\ actions[1].type = "screenshot"
    /\ Len(callLog) = 2
    /\ callLog[1].op = "wait" /\ callLog[1].result = "ok"
    /\ callLog[2].action = 2

\* C29: while a dashboard test runs, the reported phase only moves forward
\* through load, capture, interact, analyze, report, complete, or to error
\* from any phase, never backwards; it returns to idle only after the run
\* has ended.
phaseRank(phase) ==
    CASE phase = "idle" -> 0
      [] phase = "load" -> 1
      [] phase = "capture" -> 2
      [] phase = "interact" -> 3
      [] phase = "analyze" -> 4
      [] phase = "report" -> 5
      [] phase = "complete" -> 6
      [] OTHER -> 7

C29_PhaseOnlyMovesForward ==
    [][(testRunning /\ testRunning') =>
         /\ phaseRank(currentPhase') >= phaseRank(currentPhase)
         /\ currentPhase' # "idle"]_vars

\* C30: Evaluator.evaluate never raises; when the LLM call fails or no
\* screenshot could be loaded it returns the fallback report, whose
\* status/score is fail/20 with console errors, otherwise partial/50 with
\* screenshots, otherwise error/0.
C30_EvaluateFallsBack ==
    /\ evaluation.pc # "raised"
    /\ (evaluation.pc = "returned" /\ (evaluation.llm.kind = "fails" \/ evaluation.loaded = 0)) =>
         LET r == evaluation.report IN
         /\ r.fallback
         /\ evaluation.consoleErrors > 0 =>
              r.status = "fail" /\ r.playability_score = 20
         /\ (evaluation.consoleErrors = 0 /\ evaluation.valid > 0) =>
              r.status = "partial" /\ r.playability_score = 50
         /\ (evaluation.consoleErrors = 0 /\ evaluation.valid = 0) =>
              r.status = "error" /\ r.playability_score = 0

C30_Witness ==
    /\ evaluation.pc = "returned"
    /\ evaluation.llm.kind = "fails"
    /\ evaluation.consoleErrors = 0
    /\ evaluation.report.status = "partial"
    /\ evaluation.report.fallback

\* C31: a keypress action all of whose key presses finished, each within the
\* per-action timeout (each won the race against its own fresh timer), does
\* not raise a timeout error, however many repeats it has: the durations of
\* the repeats are not summed against the per-action timeout.
allPressesServed(k) ==
    /\ Cardinality(callsOf(k)) = repeatOf(actions[k])
    /\ \A i \in callsOf(k) : callLog[i].op = "keypress" /\ callLog[i].result = "ok"

C31_RepeatsNotSummed ==
    (/\ pc = "raised"
     /\ idx \in 1..Len(actions)
     /\ actions[idx].type = "keypress"
     /\ allPressesServed(idx)) => ~includes(error, "timeout")

\* C32: an error with which a session operation itself rejects is never
\* made fatal by executeAction, whatever its message: the error that ends
\* executeActions is never the rejection of a session call.
C32_SessionErrorNeverFatal ==
    pc = "raised" =>
      \A i \in 1..Len(callLog) :
         callLog[i].result \in SessionErrors => error # callLog[i].result

\* C33: the dashboard runs at most one test at a time: a POST /api/test that
\* arrives while a test is running starts no second run and leaves
\* testRunning, currentTest and currentPhase of the running test (and its
\* position and session) unchanged, in every interleaving.
C33_OneTestAtATime ==
    [][(testRunning /\ Len(requests') > Len(requests)) =>
         /\ requests' = Append(requests, "refused")
         /\ testRunning' = testRunning
         /\ currentTest' = currentTest
         /\ currentPhase' = currentPhase
         /\ runPc' = runPc
         /\ session' = session]_vars

\* a request was refused and the run it met has gone on to its interactions
C33_Witness ==
    /\ requests = <<"started", "refused">>
    /\ testRunning
    /\ currentPhase = "interact"

\* C34: whenever the status endpoint reports running = true, currentTest is
\* not null and the phase is not idle, also when a new test starts within
\* 2 s of the end of the previous one and that one's delayed reset fires.
C34_RunningHasTestAndPhase ==
    testRunning => (currentTest /\ currentPhase # "idle")

\* C35: after close() has been called on a remote Session, no later
\* operation on it opens a CDP connection or stores a browser or page handle
\* again: a closed Session stays without backend resources.
C35_ClosedSessionStaysClosed ==
    [][(/\ session.kind = "remote"
        /\ closeLog # <<>>
        /\ closeLog' = closeLog) =>
         /\ session'.connOpen <= session.connOpen
         /\ (session.browser = "null" => session'.browser = "null")
         /\ (session.page = "null" => session'.page = "null")]_vars

\* C36: a remote Session holds at most one CDP browser connection at any
\* time, also while an operation that the executor's timer abandoned is
\* still bringing the connection up and the next operation or close()
\* starts; and no connection is open once a close() that released all it
\* tried to release has returned and nothing was started since.
C36_AtMostOneConnection ==
    session.kind = "remote" =>
      /\ session.connOpen <= 1
      /\ (/\ lastOp.op = "close"
          /\ ~lastOp.raised
          /\ lastOp.freed = lastOp.released) => session.connOpen = 0

\* C37: switchToIframe(selector) enters only the iframe the selector
\* matches: when the selector matches no iframe, or the matched element has
\* no content frame, the call returns false and the Session stays on the
\* document it was on.
C37_SelectorEntersOnlyItsMatch ==
    (/\ lastOp.op = "switchToIframe"
     /\ lastOp.selector \in {"unmatched", "noFrame"}) =>
       /\ ~lastOp.result
       /\ lastOp.by = "none"
       /\ session.page = lastOp.pageBefore \/ lastOp.pageBefore = "null"

\* C38: after switchToIframe() returned true, switchToMainFrame() makes the
\* later operations target the main document again, in both backends.
C38_IframeRoundTrip ==
    (lastOp.op = "switchToMainFrame" /\ lastOp.pageBefore = "iframe") =>
       session.page = "main"

\* C39: the playability_score of every report lies in 0..100, and when the
\* LLM returned an integer score the report carries that score clamped to
\* 0..100, a returned 0 included.
C39_ScoreIsClampedLlmScore ==
    evaluation.pc = "returned" =>
      /\ evaluation.report.playability_score \in 0..100
      /\ (evaluation.llm.kind = "json" /\ evaluation.llm.scored) =>
           evaluation.report.playability_score = Max(0, Min(100, evaluation.llm.score))

\* C40: every ConsoleLogEntry that getConsoleLogs() returns has a level in
\* {log, warn, error, info}, whatever console message types and page errors
\* the page produces.
C40_LevelsAreTheFourLevels ==
    lastOp.op = "getConsoleLogs" =>
      \A i \in 1..Len(lastOp.logs) :
         lastOp.logs[i].level \in {"log", "warn", "error", "info"}

=============================================================================
